---------------------------- MODULE Spec2Model ----------------------------
(***************************************************************************)
(* Arbitrage detection engine: the direct opportunity scanner             *)
(* (opportunity_scanner.py), the triangular path finder                   *)
(* (triangular_finder.py) and the profit calculator                       *)
(* (profit_calculator.py), with the venue registry of price_fetcher.py.   *)
(*                                                                         *)
(* Numbers.  Python's Decimal and float values are modelled as fixed      *)
(* point integers counting 10^-4 ("E4": 2541.50 is 25415000, the rate    *)
(* 0.0010 is 10, the percentage 0.0906 is 906).  A product or quotient    *)
(* is rounded half-even to that scale, as Decimal rounds to its context   *)
(* precision.  The input sets keep every value inside 32-bit integers.    *)
(*                                                                         *)
(* Venue names are sequences of one-character strings, so that the        *)
(* normalisation lower().replace(" ", "").replace("v3", "") is computed.  *)
(***************************************************************************)
EXTENDS Integers, Sequences, FiniteSets, TLC

VARIABLES scanner, finder, calc, pc, args, ret, tables, threads

vars == <<scanner, finder, calc, pc, args, ret, tables, threads>>

\* ------------------------------------------------------------------ bounds
MaxQuotes == 3

MaxPairs == 4

\* ------------------------------------------------------- decimal arithmetic
E4 == 10 ^ 4

Abs(x) == IF x < 0 THEN -x ELSE x

Sgn(x) == IF x < 0 THEN -1 ELSE IF x > 0 THEN 1 ELSE 0

\* n / d for n >= 0, d > 0, rounded half-even to an integer, given the
\* quotient q and remainder r of the division.
RoundHalfEven(q, r, d) ==
    IF 2 * r > d THEN q + 1
    ELSE IF 2 * r < d THEN q
    ELSE IF q % 2 = 0 THEN q ELSE q + 1

\* <<quotient, remainder>> of (x + y) by d for 0 <= x, y < d, without forming
\* a sum above d.
AddMod(x, y, d) == IF x >= d - y THEN <<1, x - (d - y)>> ELSE <<0, x + y>>

\* <<q, acc>> after adding r to acc k times modulo d, q counting the wraps.
RECURSIVE AddTimes(_, _, _, _, _)
AddTimes(q, acc, r, d, k) ==
    IF k = 0 THEN <<q, acc>>
    ELSE LET step == AddMod(acc, r, d)
         IN  AddTimes(q + step[1], step[2], r, d, k - 1)

\* <<quotient, remainder>> of (r * 10) by d for 0 <= r < d: at once when the
\* product fits 32 bits, else by ten additions modulo d.
Times10(r, d) ==
    IF r < 200000000 THEN <<(r * 10) \div d, (r * 10) % d>>
    ELSE AddTimes(0, 0, r, d, 10)

\* Long division: <<quotient, remainder>> of (r * 10^k) by d, digit by digit.
RECURSIVE LongDiv(_, _, _, _)
LongDivStep(q, step, d, k) == LongDiv(q * 10 + step[1], step[2], d, k - 1)

LongDiv(q, r, d, k) == IF k = 0 THEN <<q, r>> ELSE LongDivStep(q, Times10(r, d), d, k)

RECURSIVE GCD(_, _)
GCD(a, b) == IF b = 0 THEN a ELSE GCD(b, a % b)

\* RoundHalfEven of a <<quotient, remainder>> of a division by d.
RoundQuotient(qr, d) == RoundHalfEven(qr[1], qr[2], d)

\* round(n * 10^k / d), any signs, d # 0; the fraction is reduced first.
ScaledDiv(n, d, k) ==
    LET g  == GCD(Abs(d), Abs(n))
        a  == Abs(n) \div g
        b  == Abs(d) \div g
    IN  Sgn(n) * Sgn(d) * RoundQuotient(LongDiv(a \div b, a % b, b, k), b)

\* Decimal product of two E4 values, as an E4 value.
DecMul(x, y) ==
    LET a  == Abs(x)
        b  == Abs(y)
        ah == a \div E4
        al == a % E4
        bh == b \div E4
        bl == b % E4
        lo == al * bl
        whole == ah * bh * E4 + ah * bl + al * bh + (lo \div E4)
    IN  Sgn(x) * Sgn(y) * RoundHalfEven(whole, lo % E4, E4)

\* Decimal product of two E4 values of any size, as the whole units and the
\* E4 fraction of the product, both carrying its sign: a product such as
\* net_profit * buy_price is larger than one E4 value can hold.
DecMulWide(x, y) ==
    LET a  == Abs(x)
        b  == Abs(y)
        ah == a \div E4
        al == a % E4
        bh == b \div E4
        bl == b % E4
        lo == al * bl
        mid == RoundHalfEven(ah * bl + al * bh + (lo \div E4), lo % E4, E4)
        s  == Sgn(x) * Sgn(y)
    IN  [units |-> s * (ah * bh + (mid \div E4)), e4 |-> s * (mid % E4)]

\* Decimal quotient of two E4 values (y > 0), as an E4 value.
DecDiv(x, y) == ScaledDiv(x, y, 4)

\* The decimal quotient (x * y) / z of E4 values (z > 0), as an E4 value; the
\* fraction is reduced before the product is taken.
DecMulDiv(x, y, z) ==
    LET g1 == GCD(Abs(z), Abs(x))
        x1 == Sgn(x) * (Abs(x) \div g1)
        z1 == Abs(z) \div g1
        g2 == GCD(z1, Abs(y))
        y1 == Sgn(y) * (Abs(y) \div g2)
        z2 == z1 \div g2
    IN  Sgn(z) * ScaledDiv(x1 * y1, z2, 0)

\* x / y * 100 as a percentage in E4: float(x / y * 100).
Pct(x, y) == ScaledDiv(x, y, 6)

\* A whole number as an E4 value.
Dec(n) == n * E4

\* -------------------------------------------------------------- venue names
\* str.lower() on the characters venue names are written with.
LowerChar(c) ==
    CASE c = "A" -> "a" [] c = "B" -> "b" [] c = "C" -> "c" [] c = "D" -> "d"
      [] c = "E" -> "e" [] c = "F" -> "f" [] c = "G" -> "g" [] c = "H" -> "h"
      [] c = "I" -> "i" [] c = "J" -> "j" [] c = "K" -> "k" [] c = "L" -> "l"
      [] c = "M" -> "m" [] c = "N" -> "n" [] c = "O" -> "o" [] c = "P" -> "p"
      [] c = "Q" -> "q" [] c = "R" -> "r" [] c = "S" -> "s" [] c = "T" -> "t"
      [] c = "U" -> "u" [] c = "V" -> "v" [] c = "W" -> "w" [] c = "X" -> "x"
      [] c = "Y" -> "y" [] c = "Z" -> "z" [] OTHER -> c

Lower(s) == [i \in 1..Len(s) |-> LowerChar(s[i])]

\* str.upper() on the characters token names are written with.
UpperChar(c) ==
    CASE c = "a" -> "A" [] c = "b" -> "B" [] c = "c" -> "C" [] c = "d" -> "D"
      [] c = "e" -> "E" [] c = "f" -> "F" [] c = "g" -> "G" [] c = "h" -> "H"
      [] c = "i" -> "I" [] c = "j" -> "J" [] c = "k" -> "K" [] c = "l" -> "L"
      [] c = "m" -> "M" [] c = "n" -> "N" [] c = "o" -> "O" [] c = "p" -> "P"
      [] c = "q" -> "Q" [] c = "r" -> "R" [] c = "s" -> "S" [] c = "t" -> "T"
      [] c = "u" -> "U" [] c = "v" -> "V" [] c = "w" -> "W" [] c = "x" -> "X"
      [] c = "y" -> "Y" [] c = "z" -> "Z" [] OTHER -> c

Upper(s) == [i \in 1..Len(s) |-> UpperChar(s[i])]

\* s.replace(" ", "")
StripSpaces(s) == SelectSeq(s, LAMBDA c : c # " ")

\* s.replace("v3", ""): every occurrence, scanning left to right.
RECURSIVE StripV3(_)
StripV3(s) ==
    IF Len(s) = 0 THEN s
    ELSE IF Len(s) >= 2 /\ s[1] = "v" /\ s[2] = "3"
         THEN StripV3(SubSeq(s, 3, Len(s)))
         ELSE <<s[1]>> \o StripV3(Tail(s))

\* exchange.lower().replace(" ", "").replace("v3", "")
NormalizeVenue(name) == StripV3(StripSpaces(Lower(name)))

\* Display names: ExchangeConfig.name of each registered venue, and one
\* venue that no table lists.
NameBinance == <<"B", "i", "n", "a", "n", "c", "e">>

NameCoinbase == <<"C", "o", "i", "n", "b", "a", "s", "e">>

NameKraken == <<"K", "r", "a", "k", "e", "n">>

NameKuCoin == <<"K", "u", "C", "o", "i", "n">>

NameOKX == <<"O", "K", "X">>

NameUniswapV3 == <<"U", "n", "i", "s", "w", "a", "p", " ", "V", "3">>

NameSushiSwap == <<"S", "u", "s", "h", "i", "S", "w", "a", "p">>

NameCurve == <<"C", "u", "r", "v", "e">>

NameBalancer == <<"B", "a", "l", "a", "n", "c", "e", "r">>

NameBitfinex == <<"B", "i", "t", "f", "i", "n", "e", "x">>

\* Registry keys.
KeyBinance == <<"b", "i", "n", "a", "n", "c", "e">>

KeyCoinbase == <<"c", "o", "i", "n", "b", "a", "s", "e">>

KeyKraken == <<"k", "r", "a", "k", "e", "n">>

KeyKucoin == <<"k", "u", "c", "o", "i", "n">>

KeyOkx == <<"o", "k", "x">>

KeyUniswap == <<"u", "n", "i", "s", "w", "a", "p">>

KeySushiswap == <<"s", "u", "s", "h", "i", "s", "w", "a", "p">>

KeyCurve == <<"c", "u", "r", "v", "e">>

KeyBalancer == <<"b", "a", "l", "a", "n", "c", "e", "r">>

\* ---------------------------------------------------------- venue registry
CEX == "CEX"

DEX == "DEX"

\* ExchangeConfig(name, exchange_type, maker_fee, taker_fee, withdrawal_fee = 0,
\* gas_overhead = 0); the rates in E4.
ExchangeConfig(name, type, maker, taker, gas) ==
    [name |-> name, exchange_type |-> type, maker_fee |-> maker,
     taker_fee |-> taker, withdrawal_fee |-> 0, gas_overhead |-> gas]

CEX_CONFIGS ==
    (KeyBinance :> ExchangeConfig(NameBinance, CEX, 10, 10, 0)) @@
    (KeyCoinbase :> ExchangeConfig(NameCoinbase, CEX, 40, 60, 0)) @@
    (KeyKraken :> ExchangeConfig(NameKraken, CEX, 16, 26, 0)) @@
    (KeyKucoin :> ExchangeConfig(NameKuCoin, CEX, 10, 10, 0)) @@
    (KeyOkx :> ExchangeConfig(NameOKX, CEX, 8, 10, 0))

DEX_CONFIGS ==
    (KeyUniswap :> ExchangeConfig(NameUniswapV3, DEX, 30, 30, 150000)) @@
    (KeySushiswap :> ExchangeConfig(NameSushiSwap, DEX, 30, 30, 150000)) @@
    (KeyCurve :> ExchangeConfig(NameCurve, DEX, 4, 4, 200000)) @@
    (KeyBalancer :> ExchangeConfig(NameBalancer, DEX, 10, 10, 180000))

\* The Optional[ExchangeConfig] of a miss.
NoConfig == [found |-> FALSE]

SomeConfig(c) == [found |-> TRUE, config |-> c]

get_exchange_config(exchange) ==
    LET exchange_lower == Lower(exchange)
    IN  IF exchange_lower \in DOMAIN tables.CEX_CONFIGS
        THEN SomeConfig(tables.CEX_CONFIGS[exchange_lower])
        ELSE IF exchange_lower \in DOMAIN tables.DEX_CONFIGS
        THEN SomeConfig(tables.DEX_CONFIGS[exchange_lower])
        ELSE NoConfig

\* -------------------------------------------------------------- quote model
\* PriceQuote: bid, ask and volume_24h in E4; age is time.time() - timestamp
\* in whole seconds when the quote is read.
staleness_seconds(q) == q.age

is_fresh(q) == q.age < 30

\* ------------------------------------------------- direct opportunity scanner
LOW == "LOW"

MEDIUM == "MEDIUM"

HIGH == "HIGH"

EXTREME == "EXTREME"

\* Mutant of DefaultTakerFee: an unlisted venue trades free of charge.
DefaultTakerFeeNone == 10 - 10

\* The defaults of OpportunityScanner.__init__ and of _evaluate_opportunity.
DefaultTakerFee == 10

DefaultGasUnits == 150000

DefaultGasPriceGwei == 30

DefaultEthPriceUsd == 2500

\* gas_units * gas_price_gwei * 1e-9 * eth_price_usd, in E4 dollars.
GasCostUsd(gas_units, gas_price_gwei, eth_price_usd) ==
    ScaledDiv((gas_units \div 1000) * gas_price_gwei * eth_price_usd, 100, 0)

\* Mutant of RiskScore: the two spread thresholds carry each other's weight.
RiskScoreSwapped(buy_quote, sell_quote, net_spread_pct) ==
    LET staleness == (IF staleness_seconds(buy_quote) > 10 THEN 2 ELSE 0)
                     + (IF staleness_seconds(sell_quote) > 10 THEN 2 ELSE 0)
        spread    == IF net_spread_pct > Dec(5) THEN 1
                     ELSE IF net_spread_pct > Dec(2) THEN 3 ELSE 0
        dex       == (IF buy_quote.exchange_type = DEX THEN 1 ELSE 0)
                     + (IF sell_quote.exchange_type = DEX THEN 1 ELSE 0)
        min_volume == IF buy_quote.volume_24h < sell_quote.volume_24h
                      THEN buy_quote.volume_24h ELSE sell_quote.volume_24h
        volume    == IF min_volume < Dec(1000) THEN 2
                     ELSE IF min_volume < Dec(10000) THEN 1 ELSE 0
    IN  staleness + spread + dex + volume

\* The score of _assess_risk.
RiskScore(buy_quote, sell_quote, net_spread_pct) ==
    LET staleness == (IF staleness_seconds(buy_quote) > 10 THEN 2 ELSE 0)
                     + (IF staleness_seconds(sell_quote) > 10 THEN 2 ELSE 0)
        spread    == IF net_spread_pct > Dec(5) THEN 3
                     ELSE IF net_spread_pct > Dec(2) THEN 1 ELSE 0
        dex       == (IF buy_quote.exchange_type = DEX THEN 1 ELSE 0)
                     + (IF sell_quote.exchange_type = DEX THEN 1 ELSE 0)
        min_volume == IF buy_quote.volume_24h < sell_quote.volume_24h
                      THEN buy_quote.volume_24h ELSE sell_quote.volume_24h
        volume    == IF min_volume < Dec(1000) THEN 2
                     ELSE IF min_volume < Dec(10000) THEN 1 ELSE 0
    IN  staleness + spread + dex + volume

assess_risk(buy_quote, sell_quote, net_spread_pct) ==
    LET risk_score == RiskScore(buy_quote, sell_quote, net_spread_pct)
    IN  IF risk_score <= 1 THEN LOW
        ELSE IF risk_score <= 3 THEN MEDIUM
        ELSE IF risk_score <= 5 THEN HIGH
        ELSE EXTREME

\* The None of an Optional result.
None == [kind |-> "none"]

IsNone(r) == r.kind = "none"

\* An exception that leaves the operation unhandled.
Raised(exception) == [kind |-> "raise", exception |-> exception]

IsRaised(r) == r.kind = "raise"

\* Mutant of NoGrossSpread: equal prices are let through.
NoGrossSpreadStrict(buy_quote, sell_quote) == sell_quote.bid < buy_quote.ask

\* The first test of _evaluate_opportunity: no positive gross spread.
NoGrossSpread(buy_quote, sell_quote) == sell_quote.bid <= buy_quote.ask

EvaluateNotes(buy_quote, sell_quote, gross_spread_pct) ==
    (IF ~is_fresh(buy_quote) \/ ~is_fresh(sell_quote) THEN <<"stale">> ELSE <<>>)
    \o (IF buy_quote.exchange_type = DEX THEN <<"buy on-chain">> ELSE <<>>)
    \o (IF sell_quote.exchange_type = DEX THEN <<"sell on-chain">> ELSE <<>>)
    \o (IF gross_spread_pct > Dec(2) THEN <<"large spread">> ELSE <<>>)

\* Mutant of NetProfit: the fees are left on the profit.
NetProfitGross(gross_profit, total_fees) == gross_profit

\* gross_profit - total_fees
NetProfit(gross_profit, total_fees) == gross_profit - total_fees

\* Mutant of evaluate_opportunity: the gas estimate is taken off the net
\* profit.
evaluate_opportunity_less_gas(sc, buy_quote, sell_quote) ==
    IF NoGrossSpread(buy_quote, sell_quote) THEN None
    ELSE
    LET buy_config  == get_exchange_config(NormalizeVenue(buy_quote.exchange))
        sell_config == get_exchange_config(NormalizeVenue(sell_quote.exchange))
        buy_fee  == IF buy_config.found THEN buy_config.config.taker_fee
                    ELSE DefaultTakerFee
        sell_fee == IF sell_config.found THEN sell_config.config.taker_fee
                    ELSE DefaultTakerFee
        gross_profit     == sell_quote.bid - buy_quote.ask
        gross_spread_pct == Pct(gross_profit, buy_quote.ask)
        buy_fee_amount   == DecMul(buy_quote.ask, buy_fee)
        sell_fee_amount  == DecMul(sell_quote.bid, sell_fee)
        total_fees       == buy_fee_amount + sell_fee_amount
        buy_gas  == IF buy_quote.exchange_type = DEX
                    THEN GasCostUsd(IF buy_config.found
                                    THEN buy_config.config.gas_overhead
                                    ELSE DefaultGasUnits,
                                    sc.gas_price_gwei, sc.eth_price_usd)
                    ELSE 0
        sell_gas == IF sell_quote.exchange_type = DEX
                    THEN GasCostUsd(IF sell_config.found
                                    THEN sell_config.config.gas_overhead
                                    ELSE DefaultGasUnits,
                                    sc.gas_price_gwei, sc.eth_price_usd)
                    ELSE 0
        net_profit     == NetProfit(gross_profit, total_fees)
                          - (buy_gas + sell_gas)
        net_spread_pct == Pct(net_profit, buy_quote.ask)
    IN  [kind |-> "opportunity",
         buy_exchange |-> buy_quote.exchange,
         sell_exchange |-> sell_quote.exchange,
         buy_price |-> buy_quote.ask,
         sell_price |-> sell_quote.bid,
         gross_spread_pct |-> gross_spread_pct,
         net_spread_pct |-> net_spread_pct,
         gross_profit_per_unit |-> gross_profit,
         net_profit_per_unit |-> net_profit,
         buy_fee_pct |-> buy_fee * 100,
         sell_fee_pct |-> sell_fee * 100,
         estimated_gas_usd |-> buy_gas + sell_gas,
         risk_level |-> assess_risk(buy_quote, sell_quote, net_spread_pct),
         notes |-> EvaluateNotes(buy_quote, sell_quote, gross_spread_pct),
         buy_exchange_type |-> buy_quote.exchange_type,
         sell_exchange_type |-> sell_quote.exchange_type]

\* OpportunityScanner._evaluate_opportunity
evaluate_opportunity(sc, buy_quote, sell_quote) ==
    IF NoGrossSpread(buy_quote, sell_quote) THEN None
    ELSE
    LET buy_config  == get_exchange_config(NormalizeVenue(buy_quote.exchange))
        sell_config == get_exchange_config(NormalizeVenue(sell_quote.exchange))
        buy_fee  == IF buy_config.found THEN buy_config.config.taker_fee
                    ELSE DefaultTakerFee
        sell_fee == IF sell_config.found THEN sell_config.config.taker_fee
                    ELSE DefaultTakerFee
        gross_profit     == sell_quote.bid - buy_quote.ask
        gross_spread_pct == Pct(gross_profit, buy_quote.ask)
        buy_fee_amount   == DecMul(buy_quote.ask, buy_fee)
        sell_fee_amount  == DecMul(sell_quote.bid, sell_fee)
        total_fees       == buy_fee_amount + sell_fee_amount
        buy_gas  == IF buy_quote.exchange_type = DEX
                    THEN GasCostUsd(IF buy_config.found
                                    THEN buy_config.config.gas_overhead
                                    ELSE DefaultGasUnits,
                                    sc.gas_price_gwei, sc.eth_price_usd)
                    ELSE 0
        sell_gas == IF sell_quote.exchange_type = DEX
                    THEN GasCostUsd(IF sell_config.found
                                    THEN sell_config.config.gas_overhead
                                    ELSE DefaultGasUnits,
                                    sc.gas_price_gwei, sc.eth_price_usd)
                    ELSE 0
        net_profit     == NetProfit(gross_profit, total_fees)
        net_spread_pct == Pct(net_profit, buy_quote.ask)
    IN  [kind |-> "opportunity",
         buy_exchange |-> buy_quote.exchange,
         sell_exchange |-> sell_quote.exchange,
         buy_price |-> buy_quote.ask,
         sell_price |-> sell_quote.bid,
         gross_spread_pct |-> gross_spread_pct,
         net_spread_pct |-> net_spread_pct,
         gross_profit_per_unit |-> gross_profit,
         net_profit_per_unit |-> net_profit,
         buy_fee_pct |-> buy_fee * 100,
         sell_fee_pct |-> sell_fee * 100,
         estimated_gas_usd |-> buy_gas + sell_gas,
         risk_level |-> assess_risk(buy_quote, sell_quote, net_spread_pct),
         notes |-> EvaluateNotes(buy_quote, sell_quote, gross_spread_pct),
         buy_exchange_type |-> buy_quote.exchange_type,
         sell_exchange_type |-> sell_quote.exchange_type]

\* Mutant of is_profitable: the fees are forgotten.
is_profitable_gross(opp) == opp.gross_profit_per_unit > 0

\* ArbitrageOpportunity.is_profitable
is_profitable(opp) == opp.net_profit_per_unit > 0

\* list.sort(key, reverse = True) on the positions of a list whose keys are
\* given: stable, so equal keys keep their order.
RECURSIVE InsertDesc(_, _, _)
InsertDesc(sorted, i, keys) ==
    IF sorted = <<>> THEN <<i>>
    ELSE IF keys[i] > keys[Head(sorted)]
         THEN <<i>> \o sorted
         ELSE <<Head(sorted)>> \o InsertDesc(Tail(sorted), i, keys)

RECURSIVE SortedPositions(_, _)
SortedPositions(keys, n) ==
    IF n = 0 THEN <<>>
    ELSE InsertDesc(SortedPositions(keys, n - 1), n, keys)

\* Mutant of SortDesc: the list is left in the order it was built.
SortDescSkipped(list, keys) == list

SortDesc(list, keys) ==
    LET order == SortedPositions(keys, Len(list))
    IN  [k \in 1..Len(list) |-> list[order[k]]]

\* Mutant of SameVenue: only a quote paired with itself is skipped.
SameQuote(buy_quote, sell_quote) == buy_quote = sell_quote

\* The two quotes of a candidate come from one venue (scan skips it).
SameVenue(buy_quote, sell_quote) == buy_quote.exchange = sell_quote.exchange

\* The threshold test of scan.
MeetsMinProfit(sc, opp) == opp.net_spread_pct >= sc.min_profit_pct

\* The (buy, sell) index pairs in the order of scan's two loops.
LoopOrder(n) == [k \in 1..(n * n) |-> <<((k - 1) \div n) + 1, ((k - 1) % n) + 1>>]

RECURSIVE ScanLoop(_, _, _, _)
ScanLoop(sc, quotes, order, k) ==
    IF k > Len(order) THEN <<>>
    ELSE LET buy_quote  == quotes[order[k][1]]
             sell_quote == quotes[order[k][2]]
             rest == ScanLoop(sc, quotes, order, k + 1)
         IN  IF SameVenue(buy_quote, sell_quote) THEN rest
             ELSE LET opp == evaluate_opportunity(sc, buy_quote, sell_quote)
                  IN  IF ~IsNone(opp) /\ MeetsMinProfit(sc, opp)
                      THEN <<opp>> \o rest
                      ELSE rest

BestOf(opportunities) ==
    IF opportunities # <<>> THEN opportunities[1] ELSE None

scan(sc, quotes) ==
    IF Len(quotes) < 2
    THEN [kind |-> "scan", quotes |-> quotes, opportunities |-> <<>>,
          best_opportunity |-> None]
    ELSE LET found == ScanLoop(sc, quotes, LoopOrder(Len(quotes)), 1)
             opportunities == SortDesc(found, [k \in 1..Len(found) |-> found[k].net_spread_pct])
         IN  [kind |-> "scan", quotes |-> quotes,
              opportunities |-> opportunities,
              best_opportunity |-> BestOf(opportunities)]

\* ------------------------------------------------------ decimal floating point
\* The triangular finder multiplies and divides prices from 0.00855 to 67865,
\* so its Decimal amounts are modelled in floating point: [m, e] is m * 10^e
\* with a coefficient m of at most 8 digits (Decimal's context keeps 28), and
\* each product or quotient is rounded half-even to that precision.
D(m, e) == [m |-> m, e |-> e]

E8 == 10 ^ 8

RECURSIVE Digits(_)
Digits(n) == IF n < 10 THEN 1 ELSE 1 + Digits(n \div 10)

\* (hi * 10^8 + lo) * 10^e, rounded to a coefficient of 8 digits.
Round8(hi, lo, e) ==
    IF hi = 0 THEN D(lo, e)
    ELSE LET d    == Digits(hi)
             unit == 10 ^ d
             q    == hi * (10 ^ (8 - d)) + (lo \div unit)
             m    == RoundHalfEven(q, lo % unit, unit)
         IN  IF m = E8 THEN D(10 ^ 7, e + d + 1) ELSE D(m, e + d)

\* Decimal.__mul__
DMul(a, b) ==
    LET ah == a.m \div E4
        al == a.m % E4
        bh == b.m \div E4
        bl == b.m % E4
        p0 == al * bl
        p1 == ah * bl + al * bh + (p0 \div E4)
        hi == ah * bh + (p1 \div E4)
        lo == (p1 % E4) * E4 + (p0 % E4)
    IN  Round8(hi, lo, a.e + b.e)

\* The digits of q + r/d, until the coefficient has 8 or the division ends.
RECURSIVE DivDigits(_, _, _, _)
DivDigits(q, r, d, e) ==
    IF r = 0 THEN D(q, e)
    ELSE IF q >= 10 ^ 7
    THEN LET m == RoundHalfEven(q, r, d)
         IN  IF m = E8 THEN D(10 ^ 7, e + 1) ELSE D(m, e)
    ELSE DivDigits(q * 10 + ((r * 10) \div d), (r * 10) % d, d, e - 1)

\* Decimal.__truediv__ (b # 0)
DDiv(a, b) == DivDigits(a.m \div b.m, a.m % b.m, b.m, a.e - b.e)

\* float(amount - Decimal("1.0")) * 100, as a percentage in E4.
ProfitPct(amount) ==
    LET shift == amount.e + 6
        scaled == IF shift >= 0 THEN amount.m * (10 ^ shift)
                  ELSE ScaledDiv(amount.m, 10 ^ (-shift), 0)
    IN  scaled - 10 ^ 6

\* ------------------------------------------------------------- price source
\* The quotes of the price source keep bid, ask and mid as Decimal values
\* [m, e]; sums and halves of them are exact, as they are with 28 digits.

\* The coefficients of a and b at their smaller exponent.
Aligned(a, b) ==
    LET e == IF a.e < b.e THEN a.e ELSE b.e
    IN  [x |-> a.m * (10 ^ (a.e - e)), y |-> b.m * (10 ^ (b.e - e)), e |-> e]

\* Decimal.__add__, exact.
DAdd(a, b) == LET al == Aligned(a, b) IN D(al.x + al.y, al.e)

\* Decimal.__sub__, exact.
DSub(a, b) == LET al == Aligned(a, b) IN D(al.x - al.y, al.e)

\* a / 2, exact.
DHalf(a) == IF a.m % 2 = 0 THEN D(a.m \div 2, a.e) ELSE D(a.m * 5, a.e - 1)

\* a == b and a <= b on Decimal values.
DEq(a, b) == LET al == Aligned(a, b) IN al.x = al.y

DLe(a, b) == LET al == Aligned(a, b) IN al.x <= al.y

\* float(x / y * 100) as a percentage in E4, for x and y > 0 of like size.
DPct(x, y) == LET al == Aligned(x, y) IN ScaledDiv(al.x, al.y, 6)

\* Token names, as the characters they are written with.
TokETH == <<"E", "T", "H">>

TokBTC == <<"B", "T", "C">>

TokUSDC == <<"U", "S", "D", "C">>

TokUSDT == <<"U", "S", "D", "T">>

\* One entry of MOCK_PRICES: the float prices as Decimal(str(...)) reads them.
MockPrice(bid, ask, volume) == [bid |-> bid, ask |-> ask, volume |-> volume]

\* PriceFetcher.MOCK_PRICES
MOCK_PRICES ==
    (<<TokETH, TokUSDC>> :>
        ((KeyBinance :> MockPrice(D(254120, -2), D(254150, -2), 125000)) @@
         (KeyCoinbase :> MockPrice(D(254380, -2), D(254410, -2), 45000)) @@
         (KeyKraken :> MockPrice(D(254250, -2), D(254300, -2), 35000)) @@
         (KeyKucoin :> MockPrice(D(254090, -2), D(254140, -2), 28000)) @@
         (KeyOkx :> MockPrice(D(254100, -2), D(254160, -2), 52000)) @@
         (KeyUniswap :> MockPrice(D(254210, -2), D(254280, -2), 85000)) @@
         (KeySushiswap :> MockPrice(D(254050, -2), D(254130, -2), 22000)))) @@
    (<<TokBTC, TokUSDC>> :>
        ((KeyBinance :> MockPrice(D(67850, 0), D(67865, 0), 4500)) @@
         (KeyCoinbase :> MockPrice(D(67920, 0), D(67950, 0), 2100)) @@
         (KeyKraken :> MockPrice(D(67880, 0), D(67910, 0), 1800)) @@
         (KeyKucoin :> MockPrice(D(67840, 0), D(67870, 0), 1200)) @@
         (KeyOkx :> MockPrice(D(67855, 0), D(67880, 0), 3200)) @@
         (KeyUniswap :> MockPrice(D(67870, 0), D(67920, 0), 950)))) @@
    (<<TokETH, TokBTC>> :>
        ((KeyBinance :> MockPrice(D(3745, -5), D(3748, -5), 8500)) @@
         (KeyCoinbase :> MockPrice(D(3752, -5), D(3756, -5), 3200)) @@
         (KeyKraken :> MockPrice(D(3748, -5), D(3752, -5), 2100)) @@
         (KeyKucoin :> MockPrice(D(3744, -5), D(3749, -5), 1800)) @@
         (KeyOkx :> MockPrice(D(3746, -5), D(3750, -5), 4100)))) @@
    (<<TokUSDC, TokUSDT>> :>
        ((KeyBinance :> MockPrice(D(9998, -4), D(10002, -4), 500000)) @@
         (KeyCoinbase :> MockPrice(D(9997, -4), D(10003, -4), 120000)) @@
         (KeyCurve :> MockPrice(D(99995, -5), D(100005, -5), 2500000))))

\* 1.0 / price: the float quotient, kept to the 8 digits of the model.
Inverse(price) == DDiv(D(1, 0), price)

\* Mutant of Inverted: the inverses keep the sides of the listed prices.
InvertedSameSides(data) ==
    MockPrice(Inverse(data.bid), Inverse(data.ask), data.volume)

\* The inverted prices of _get_mock_price.
Inverted(data) ==
    MockPrice(Inverse(data.ask), Inverse(data.bid), data.volume)

\* PriceFetcher._build_quote(base, quote, exchange, data); the quote is built
\* at time.time(), so its age is 0.
build_quote(base, quote, exchange, data) ==
    LET config == get_exchange_config(exchange)
        bid    == data.bid
        ask    == data.ask
        mid    == DHalf(DAdd(bid, ask))
    IN  [kind |-> "quote",
         exchange |-> IF config.found THEN config.config.name ELSE exchange,
         exchange_type |-> IF config.found THEN config.config.exchange_type
                           ELSE CEX,
         pair |-> base \o <<"/">> \o quote,
         bid |-> bid,
         ask |-> ask,
         mid |-> mid,
         spread_pct |-> DPct(DSub(ask, bid), mid),
         volume_24h |-> data.volume,
         age |-> 0]

\* PriceFetcher._get_mock_price(base, quote, exchange)
get_mock_price(base, quote, exchange) ==
    LET pair_key       == <<Upper(base), Upper(quote)>>
        inverse_key    == <<Upper(quote), Upper(base)>>
        exchange_lower == Lower(exchange)
    IN  IF pair_key \in DOMAIN MOCK_PRICES
           /\ exchange_lower \in DOMAIN MOCK_PRICES[pair_key]
        THEN build_quote(base, quote, exchange_lower,
                         MOCK_PRICES[pair_key][exchange_lower])
        ELSE IF inverse_key \in DOMAIN MOCK_PRICES
                /\ exchange_lower \in DOMAIN MOCK_PRICES[inverse_key]
        THEN build_quote(base, quote, exchange_lower,
                         Inverted(MOCK_PRICES[inverse_key][exchange_lower]))
        ELSE None

\* PriceFetcher.fetch_all_prices_sync(base, quote, exchanges): the quotes of
\* the exchanges that have one, in the order asked.
RECURSIVE fetch_all_prices(_, _, _)
fetch_all_prices(base, quote, exchanges) ==
    IF Len(exchanges) = 0 THEN <<>>
    ELSE LET r == get_mock_price(base, quote, exchanges[1])
         IN  (IF IsNone(r) THEN <<>> ELSE <<r>>)
             \o fetch_all_prices(base, quote, Tail(exchanges))

\* ---------------------------------------------------- triangular path finder
\* Tokens are strings; TokenRank is their place in Python's string order,
\* which sorted() uses.
TokenRank(t) ==
    CASE t = "BNB" -> 1 [] t = "BTC" -> 2 [] t = "ETH" -> 3
      [] t = "USD" -> 4 [] t = "USDC" -> 5 [] t = "USDT" -> 6

TradingPair(base, quote, bid, ask, fee_rate, exchange) ==
    [base |-> base, quote |-> quote, bid |-> bid, ask |-> ask,
     fee_rate |-> fee_rate, exchange |-> exchange]

\* TriangularFinder.MOCK_PAIRS; fee rates in E4.
MOCK_PAIRS ==
    (KeyBinance :>
        <<TradingPair("ETH", "USDT", D(254120, -2), D(254150, -2), 10, KeyBinance),
          TradingPair("ETH", "BTC", D(3745, -5), D(3748, -5), 10, KeyBinance),
          TradingPair("ETH", "USDC", D(254080, -2), D(254120, -2), 10, KeyBinance),
          TradingPair("BTC", "USDT", D(6785000, -2), D(6786500, -2), 10, KeyBinance),
          TradingPair("BTC", "USDC", D(6784000, -2), D(6786000, -2), 10, KeyBinance),
          TradingPair("USDC", "USDT", D(9998, -4), D(10002, -4), 10, KeyBinance),
          TradingPair("BNB", "USDT", D(58050, -2), D(58080, -2), 10, KeyBinance),
          TradingPair("BNB", "ETH", D(2285, -4), D(2288, -4), 10, KeyBinance),
          TradingPair("BNB", "BTC", D(855, -5), D(857, -5), 10, KeyBinance)>>) @@
    (KeyCoinbase :>
        <<TradingPair("ETH", "USD", D(254380, -2), D(254410, -2), 60, KeyCoinbase),
          TradingPair("ETH", "BTC", D(3752, -5), D(3756, -5), 60, KeyCoinbase),
          TradingPair("BTC", "USD", D(6792000, -2), D(6795000, -2), 60, KeyCoinbase)>>)

\* MOCK_PAIRS.get(exchange.lower(), [])
MockPairsOf(exchange) ==
    IF Lower(exchange) \in DOMAIN tables.MOCK_PAIRS
    THEN tables.MOCK_PAIRS[Lower(exchange)] ELSE <<>>

\* graph[t] when t is a key, [] otherwise: graph.get(t, []).
Adjacent(graph, t) == IF t \in DOMAIN graph THEN graph[t] ELSE <<>>

InList(x, list) == \E k \in 1..Len(list) : list[k] = x

\* Mutant of AddEdge: the reverse direction is added only when the quote
\* token already had an adjacency list.
AddEdgeKnownQuote(graph, pair) ==
    LET g1 == IF pair.base \in DOMAIN graph THEN graph
              ELSE graph @@ (pair.base :> <<>>)
        g2 == IF pair.quote \in DOMAIN g1 THEN g1
              ELSE g1 @@ (pair.quote :> <<>>)
        g3 == IF InList(pair.quote, g2[pair.base]) THEN g2
              ELSE [g2 EXCEPT ![pair.base] = Append(@, pair.quote)]
        g4 == IF InList(pair.base, g3[pair.quote])
                 \/ pair.quote \notin DOMAIN graph THEN g3
              ELSE [g3 EXCEPT ![pair.quote] = Append(@, pair.base)]
    IN  g4

\* One pair added to the adjacency lists, both directions.
AddEdge(graph, pair) ==
    LET g1 == IF pair.base \in DOMAIN graph THEN graph
              ELSE graph @@ (pair.base :> <<>>)
        g2 == IF pair.quote \in DOMAIN g1 THEN g1
              ELSE g1 @@ (pair.quote :> <<>>)
        g3 == IF InList(pair.quote, g2[pair.base]) THEN g2
              ELSE [g2 EXCEPT ![pair.base] = Append(@, pair.quote)]
        g4 == IF InList(pair.base, g3[pair.quote]) THEN g3
              ELSE [g3 EXCEPT ![pair.quote] = Append(@, pair.base)]
    IN  g4

EmptyGraph == [t \in {} |-> <<>>]

RECURSIVE BuildGraphFrom(_, _, _)
BuildGraphFrom(graph, pairs, k) ==
    IF k > Len(pairs) THEN graph
    ELSE BuildGraphFrom(AddEdge(graph, pairs[k]), pairs, k + 1)

build_graph(pairs) == BuildGraphFrom(EmptyGraph, pairs, 1)

\* tuple(sorted([a, b, c]))
Sorted3(a, b, c) ==
    LET lo(x, y) == IF TokenRank(y) < TokenRank(x) THEN y ELSE x
        hi(x, y) == IF TokenRank(y) < TokenRank(x) THEN x ELSE y
        m1 == lo(a, b)
        m2 == hi(a, b)
    IN  <<lo(m1, c), lo(m2, hi(m1, c)), hi(m2, hi(m1, c))>>

ListItems(list) == {list[k] : k \in 1..Len(list)}

\* The set that _find_triangles collects.
TriangleSet(graph) ==
    UNION {UNION {{Sorted3(a, b, c) :
                      c \in {x \in ListItems(Adjacent(graph, b)) :
                                x # a /\ InList(a, Adjacent(graph, x))}} :
                  b \in ListItems(Adjacent(graph, a))} :
           a \in DOMAIN graph}

\* The lists a set can be iterated in: [t for t in triangles].
RECURSIVE Orderings(_)
Orderings(S) ==
    IF S = {} THEN {<<>>}
    ELSE UNION {{<<x>> \o rest : rest \in Orderings(S \ {x})} : x \in S}

\* Last pair of the list written under the key (x, y): pair_map.get((x, y)).
RECURSIVE PairMapGet(_, _, _, _)
PairMapGet(pairs, k, x, y) ==
    IF k = 0 THEN None
    ELSE IF \/ (pairs[k].base = x /\ pairs[k].quote = y)
            \/ (pairs[k].quote = x /\ pairs[k].base = y)
         THEN [kind |-> "pair", pair |-> pairs[k]]
         ELSE PairMapGet(pairs, k - 1, x, y)

\* Mutant of FindPair: the pair is found only from its base to its quote.
FindPairForward(pairs, from_token, to_token) ==
    IF \E k \in 1..Len(pairs) :
          pairs[k].base = from_token /\ pairs[k].quote = to_token
    THEN [kind |-> "pair",
          pair |-> pairs[CHOOSE k \in 1..Len(pairs) :
                            /\ pairs[k].base = from_token
                            /\ pairs[k].quote = to_token
                            /\ \A j \in (k + 1)..Len(pairs) :
                                  ~(pairs[j].base = from_token
                                    /\ pairs[j].quote = to_token)]]
    ELSE None

\* The pair of a hop, looked up in either direction.
FindPair(pairs, from_token, to_token) ==
    LET direct == PairMapGet(pairs, Len(pairs), from_token, to_token)
    IN  IF ~IsNone(direct) THEN direct
        ELSE PairMapGet(pairs, Len(pairs), to_token, from_token)

\* The hop sells the pair's base (at bid) rather than buys it (at ask).
SellsBase(pair, from_token) == pair.base = from_token

\* Mutant of HopAmount: the bid is used in both directions.
HopAmountAtBid(pair, from_token, amount) ==
    IF SellsBase(pair, from_token) THEN DMul(amount, pair.bid)
    ELSE DDiv(amount, pair.bid)

\* The amount after one hop, before the fee.
HopAmount(pair, from_token, amount) ==
    IF SellsBase(pair, from_token) THEN DMul(amount, pair.bid)
    ELSE DDiv(amount, pair.ask)

HopStep(pair, from_token, to_token) ==
    IF SellsBase(pair, from_token)
    THEN [kind |-> "Sell", from |-> from_token, to |-> to_token,
          price |-> pair.bid]
    ELSE [kind |-> "Buy", from |-> from_token, to |-> to_token,
          price |-> pair.ask]

\* Mutant of ApplyFee: the hop keeps the whole amount.
ApplyFeeNone(new_amount, pair) == new_amount

\* new_amount * (1 - pair.fee_rate)
ApplyFee(new_amount, pair) == DMul(new_amount, D(E4 - pair.fee_rate, -4))

\* float(pair.fee_rate) * 100
HopFeePct(pair) == pair.fee_rate * 100

\* total_fee_pct is a Python float, a binary double.  Doubles below 32 are
\* kept exactly as 75-bit fixed point numbers: five limbs of 15 bits, the
\* most significant first, in units of 2^-70.
Limb == 2 ^ 15

FxZero == <<0, 0, 0, 0, 0>>

\* The limbs after the carries are passed up.
FxNormalize(r) ==
    LET s5 == r[5]
        s4 == r[4] + (s5 \div Limb)
        s3 == r[3] + (s4 \div Limb)
        s2 == r[2] + (s3 \div Limb)
        s1 == r[1] + (s2 \div Limb)
    IN  <<s1, s2 % Limb, s3 % Limb, s4 % Limb, s5 % Limb>>

FxAdd(x, y) == FxNormalize([i \in 1..5 |-> x[i] + y[i]])

\* x * c for a whole c of at most 2^15.
FxTimes(x, c) == FxNormalize([i \in 1..5 |-> x[i] * c])

\* n / d for 0 <= n < d <= 10^4, cut after 70 binary places; inexact tells
\* that places were cut.
FxOfRatio(n, d) ==
    LET q1 == (n * (2 ^ 10)) \div d
        r1 == (n * (2 ^ 10)) % d
        q2 == (r1 * Limb) \div d
        r2 == (r1 * Limb) % d
        q3 == (r2 * Limb) \div d
        r3 == (r2 * Limb) % d
        q4 == (r3 * Limb) \div d
        r4 == (r3 * Limb) % d
        q5 == (r4 * Limb) \div d
        r5 == (r4 * Limb) % d
    IN  [x |-> <<q1, q2, q3, q4, q5>>, inexact |-> r5 # 0]

\* The number of bits of v > 0.
RECURSIVE BitLen(_)
BitLen(v) == IF v = 0 THEN 0 ELSE 1 + BitLen(v \div 2)

\* The position of the highest bit of x # FxZero, the lowest bit being 0.
TopBit(x) ==
    LET i == CHOOSE j \in 1..5 : x[j] # 0 /\ \A h \in 1..(j - 1) : x[h] = 0
    IN  15 * (5 - i) + BitLen(x[i]) - 1

\* The double nearest to x, or to a little more than x when inexact: the
\* 53 highest bits are kept, the rest rounded half to even.  The bits
\* dropped lie in the two lowest limbs.
ToDouble(x, inexact) ==
    IF x = FxZero \/ TopBit(x) <= 52 THEN x
    ELSE LET unit  == 2 ^ (TopBit(x) - 52)
             low30 == x[4] * Limb + x[5]
             low   == low30 % unit
             odd   == (low30 \div unit) % 2 = 1
             up    == \/ 2 * low > unit
                      \/ 2 * low = unit /\ (inexact \/ odd)
             kept  == low30 - low + (IF up THEN unit ELSE 0)
         IN  FxNormalize(<<x[1], x[2], x[3], kept \div Limb, kept % Limb>>)

\* fee = float(pair.fee_rate) * 100, for a fee_rate in E4.
FeeFloat(fee_rate) ==
    LET rate == FxOfRatio(fee_rate, E4)
    IN  ToDouble(FxTimes(ToDouble(rate.x, rate.inexact), 100), FALSE)

\* total_fee_pct += fee over the hops from k on, as the float it is.
RECURSIVE FloatFeeTotal(_, _, _)
FloatFeeTotal(used_pairs, k, total) ==
    IF k > Len(used_pairs) THEN total
    ELSE FloatFeeTotal(used_pairs, k + 1,
                       ToDouble(FxAdd(total, FeeFloat(used_pairs[k].fee_rate)),
                                FALSE))

\* The loop of _calculate_path_profit from hop i on; None at a missing pair.
RECURSIVE WalkPath(_, _, _, _)
WalkPath(path_tokens, pairs, i, acc) ==
    IF i > Len(path_tokens) - 1 THEN acc
    ELSE LET from_token == path_tokens[i]
             to_token   == path_tokens[i + 1]
             found      == FindPair(pairs, from_token, to_token)
         IN  IF IsNone(found) THEN None
             ELSE LET pair == found.pair
                      new_amount == ApplyFee(HopAmount(pair, from_token,
                                                       acc.amount), pair)
                  IN  WalkPath(path_tokens, pairs, i + 1,
                               [kind |-> "walk",
                                amount |-> new_amount,
                                total_fee_pct |-> acc.total_fee_pct
                                                  + HopFeePct(pair),
                                steps |-> Append(acc.steps,
                                                 HopStep(pair, from_token,
                                                         to_token)),
                                used_pairs |-> Append(acc.used_pairs, pair)])

\* _calculate_path_profit: None, or the profit, fees, steps and pairs.
calculate_path_profit(path_tokens, pairs) ==
    LET walk == WalkPath(path_tokens, pairs, 1,
                         [kind |-> "walk", amount |-> D(10, -1),
                          total_fee_pct |-> 0, steps |-> <<>>,
                          used_pairs |-> <<>>])
    IN  IF IsNone(walk) THEN None
        ELSE [kind |-> "profit",
              amount |-> walk.amount,
              gross_profit_pct |-> ProfitPct(walk.amount),
              total_fee_pct |-> walk.total_fee_pct,
              steps |-> walk.steps,
              used_pairs |-> walk.used_pairs]

\* itertools.permutations of a 3-tuple, in its order.
Permutations3(t) ==
    <<<<t[1], t[2], t[3]>>, <<t[1], t[3], t[2]>>, <<t[2], t[1], t[3]>>,
      <<t[2], t[3], t[1]>>, <<t[3], t[1], t[2]>>, <<t[3], t[2], t[1]>>>>

\* list(perm) + [perm[0]]
CloseCycle(perm) == perm \o <<perm[1]>>

\* Mutant of PathNetProfit: the fees, already in the amount, are not
\* subtracted again.
PathNetProfitOnce(profit, fees) == profit

\* net_profit = profit - fees
PathNetProfit(profit, fees) == profit - fees

ArbitragePath(path_tokens, result, exchange) ==
    [kind |-> "path",
     tokens |-> path_tokens,
     pairs |-> result.used_pairs,
     gross_profit_pct |-> result.gross_profit_pct,
     net_profit_pct |-> PathNetProfit(result.gross_profit_pct,
                                      result.total_fee_pct),
     total_fees_pct |-> result.total_fee_pct,
     exchange |-> exchange,
     execution_steps |-> result.steps]

\* Mutant of Improves: the first ordering that can be walked is kept.
ImprovesFirst(result, best_path) == IsNone(best_path)

\* The candidate replaces the best so far: profit > best_profit, where
\* best_profit starts at -inf.
Improves(result, best_path) ==
    IsNone(best_path) \/ result.gross_profit_pct > best_path.gross_profit_pct

\* The loop of _evaluate_triangle over the permutations from k on.
RECURSIVE BestPathFrom(_, _, _, _, _)
BestPathFrom(perms, pairs, exchange, k, best_path) ==
    IF k > Len(perms) THEN best_path
    ELSE LET path_tokens == CloseCycle(perms[k])
             result == calculate_path_profit(path_tokens, pairs)
         IN  BestPathFrom(perms, pairs, exchange, k + 1,
                          IF ~IsNone(result) /\ Improves(result, best_path)
                          THEN ArbitragePath(path_tokens, result, exchange)
                          ELSE best_path)

evaluate_triangle(triangle, pairs, exchange) ==
    BestPathFrom(Permutations3(triangle), pairs, exchange, 1, None)

\* ArbitragePath.is_profitable
path_is_profitable(path) == path.net_profit_pct > 0

\* Mutant of PathMeetsMinProfit: the gross figure is tested.
PathMeetsMinProfitGross(fd, path) == path.gross_profit_pct >= fd.min_profit_pct

\* The threshold test of find_opportunities.
PathMeetsMinProfit(fd, path) == path.net_profit_pct >= fd.min_profit_pct

\* The loop of find_opportunities over the triangles from k on; path_of[t]
\* is _evaluate_triangle(t, pairs, exchange).
RECURSIVE EvaluateAll(_, _, _, _)
EvaluateAll(fd, triangles, path_of, k) ==
    IF k > Len(triangles) THEN <<>>
    ELSE LET path == path_of[triangles[k]]
             rest == EvaluateAll(fd, triangles, path_of, k + 1)
         IN  IF ~IsNone(path) /\ PathMeetsMinProfit(fd, path)
             THEN <<path>> \o rest ELSE rest

\* _evaluate_triangle of each triangle of a set.
EvaluateEach(triangle_set, pairs, exchange) ==
    [t \in triangle_set |-> evaluate_triangle(t, pairs, exchange)]

\* find_opportunities once the pairs are resolved, the triangles iterated in
\* the given order.
FindIn(fd, pairs, triangles, path_of) ==
    IF Len(pairs) = 0 THEN <<>>
    ELSE LET found == EvaluateAll(fd, triangles, path_of, 1)
         IN  SortDesc(found, [k \in 1..Len(found) |-> found[k].net_profit_pct])

\* pairs, or the mock table's when the caller gives None.
ResolvePairs(exchange, pairs) ==
    IF IsNone(pairs) THEN MockPairsOf(exchange) ELSE pairs.list

SomePairs(list) == [kind |-> "pairs", list |-> list]

\* The triangles of a pair list.
find_triangles(pairs) == TriangleSet(build_graph(pairs))

\* --------------------------------------------------------- profit calculator
SwapSuffix == <<"_", "s", "w", "a", "p">>

KeyErc20Transfer ==
    <<"e", "r", "c", "2", "0", "_", "t", "r", "a", "n", "s", "f", "e", "r">>

\* One entry of EXCHANGE_FEES; the rates in E4.
FeeSchedule(maker, taker, withdrawal) ==
    [maker |-> maker, taker |-> taker, withdrawal |-> withdrawal]

EXCHANGE_FEES ==
    (KeyBinance :> FeeSchedule(10, 10, 5)) @@
    (KeyCoinbase :> FeeSchedule(40, 60, 0)) @@
    (KeyKraken :> FeeSchedule(16, 26, 10)) @@
    (KeyKucoin :> FeeSchedule(10, 10, 3)) @@
    (KeyOkx :> FeeSchedule(8, 10, 4)) @@
    (KeyUniswap :> FeeSchedule(30, 30, 0)) @@
    (KeySushiswap :> FeeSchedule(30, 30, 0)) @@
    (KeyCurve :> FeeSchedule(4, 4, 0)) @@
    (KeyBalancer :> FeeSchedule(10, 10, 0))

GAS_COSTS ==
    ((KeyUniswap \o SwapSuffix) :> 150000) @@
    ((KeySushiswap \o SwapSuffix) :> 150000) @@
    ((KeyCurve \o SwapSuffix) :> 200000) @@
    ((KeyBalancer \o SwapSuffix) :> 180000) @@
    (KeyErc20Transfer :> 65000)

\* ProfitCalculator._get_fees(exchange)
get_fees(exchange) ==
    LET exchange_lower == NormalizeVenue(exchange)
    IN  IF exchange_lower \in DOMAIN tables.EXCHANGE_FEES
        THEN tables.EXCHANGE_FEES[exchange_lower]
        ELSE FeeSchedule(10, 10, 5)

\* GAS_COSTS.get(f"{exchange.lower()}_swap", 150000)
SwapGasUnits(exchange) ==
    LET key == Lower(exchange) \o SwapSuffix
    IN  IF key \in DOMAIN tables.GAS_COSTS THEN tables.GAS_COSTS[key]
        ELSE 150000

\* The gas of one leg of calculate: charged on a DEX leg only.
LegGasCostUsd(cl, exchange, exchange_type) ==
    IF exchange_type = DEX
    THEN GasCostUsd(SwapGasUnits(exchange), cl.gas_price_gwei,
                    cl.eth_price_usd)
    ELSE 0

\* The size factor of estimate_slippage, in tenths; size_pct in E4.
SizeFactor(size_pct) ==
    IF size_pct < 1000 THEN 10
    ELSE IF size_pct < Dec(1) THEN 15
    ELSE IF size_pct < Dec(5) THEN 25
    ELSE 50

\* The liquidity factor of estimate_slippage, in tenths; liquidity_usd in
\* whole dollars.
LiquidityFactor(liquidity_usd) ==
    IF liquidity_usd < 100000 THEN 20
    ELSE IF liquidity_usd < 1000000 THEN 15
    ELSE 10

\* The default liquidity_usd of estimate_slippage, in whole dollars.
DefaultLiquidityUsd == 1000000

\* ProfitCalculator.estimate_slippage(amount, price, liquidity_usd); the
\* percentages in E4.  default_slippage_pct is a multiple of 0.01%, so the
\* rate total_slippage_pct / 100 is an exact E4 value.
estimate_slippage(cl, amount, price, liquidity_usd) ==
    LET trade_value        == DecMul(amount, price)
        base_slippage      == cl.default_slippage_pct
        size_pct           == ScaledDiv(trade_value, liquidity_usd, 2)
        size_factor        == SizeFactor(size_pct)
        liquidity_factor   == LiquidityFactor(liquidity_usd)
        total_slippage_pct == (base_slippage * size_factor * liquidity_factor)
                                 \div 100
    IN  [kind |-> "slippage",
         base_slippage_pct  |-> base_slippage,
         size_factor        |-> size_factor,
         liquidity_factor   |-> liquidity_factor,
         total_slippage_pct |-> total_slippage_pct,
         slippage_cost      |-> DecMul(trade_value, total_slippage_pct \div 100)]

\* The withdrawal fee of calculate.
WithdrawalFee(amount, buy_fees, include_withdrawal) ==
    IF include_withdrawal THEN DecMul(amount, buy_fees.withdrawal) ELSE 0

\* Mutant of TotalCosts: the gas is added in dollars, not converted.
TotalCostsGasInUsd(buy_fee, sell_fee, withdrawal_fee, slippage_cost, gas_cost_usd, buy_price) ==
    buy_fee + sell_fee + withdrawal_fee + slippage_cost + gas_cost_usd

\* Mutant of TotalCosts: the slippage is left out.
TotalCostsNoSlippage(buy_fee, sell_fee, withdrawal_fee, slippage_cost, gas_cost_usd, buy_price) ==
    buy_fee + sell_fee + withdrawal_fee
        + (IF gas_cost_usd > 0 THEN DecDiv(gas_cost_usd, buy_price) ELSE 0)

\* The total costs of calculate, the gas converted at the buy price.
TotalCosts(buy_fee, sell_fee, withdrawal_fee, slippage_cost, gas_cost_usd, buy_price) ==
    buy_fee + sell_fee + withdrawal_fee + slippage_cost
        + (IF gas_cost_usd > 0 THEN DecDiv(gas_cost_usd, buy_price) ELSE 0)

\* Mutant of LegFee: the maker rate is charged.
LegFeeMaker(value, fees) == DecMul(value, fees.maker)

\* The trading fee of one leg of calculate: the taker rate on its value.
LegFee(value, fees) == DecMul(value, fees.taker)

\* ProfitCalculator.calculate(pair, buy_exchange, sell_exchange, buy_price,
\* sell_price, amount, include_withdrawal, buy_exchange_type,
\* sell_exchange_type), for buy_price > 0; gross_profit / buy_cost raises
\* when buy_cost is 0.
calculate(cl, pair, buy_exchange, sell_exchange, buy_price, sell_price, amount, include_withdrawal, buy_exchange_type, sell_exchange_type) ==
    LET buy_fees       == get_fees(buy_exchange)
        sell_fees      == get_fees(sell_exchange)
        buy_cost       == DecMul(amount, buy_price)
        sell_revenue   == DecMul(amount, sell_price)
        gross_profit   == sell_revenue - buy_cost
        buy_fee        == LegFee(buy_cost, buy_fees)
        sell_fee       == LegFee(sell_revenue, sell_fees)
        withdrawal_fee == WithdrawalFee(amount, buy_fees, include_withdrawal)
        gas_cost_usd   == LegGasCostUsd(cl, buy_exchange, buy_exchange_type)
                          + LegGasCostUsd(cl, sell_exchange,
                                          sell_exchange_type)
        slippage       == estimate_slippage(cl, amount, buy_price,
                                            DefaultLiquidityUsd)
        total_costs    == TotalCosts(buy_fee, sell_fee, withdrawal_fee,
                                     slippage.slippage_cost, gas_cost_usd,
                                     buy_price)
        net_profit     == gross_profit - total_costs
        net_profit_usd == DecMulWide(net_profit, buy_price)
        total_fee_pct  == IF buy_cost > 0
                          THEN Pct(buy_fee + sell_fee, buy_cost) ELSE 0
    IN  IF buy_cost = 0
        THEN Raised(IF gross_profit = 0 THEN "decimal.InvalidOperation"
                    ELSE "decimal.DivisionByZero")
        ELSE
        [kind |-> "breakdown",
         pair |-> pair,
         buy_exchange |-> buy_exchange,
         sell_exchange |-> sell_exchange,
         trade_amount |-> amount,
         buy_price |-> buy_price,
         sell_price |-> sell_price,
         gross_profit |-> gross_profit,
         gross_profit_pct |-> Pct(gross_profit, buy_cost),
         buy_fee |-> buy_fee,
         sell_fee |-> sell_fee,
         withdrawal_fee |-> withdrawal_fee,
         gas_cost_usd |-> gas_cost_usd,
         slippage_cost |-> slippage.slippage_cost,
         total_costs |-> total_costs,
         net_profit |-> net_profit,
         net_profit_pct |-> IF buy_cost > 0 THEN Pct(net_profit, buy_cost)
                            ELSE 0,
         net_profit_usd |-> net_profit_usd,
         breakeven_spread_pct |-> total_fee_pct + slippage.total_slippage_pct,
         profit_per_dollar |-> IF buy_cost > 0
                               THEN DecMulDiv(net_profit, buy_price, buy_cost)
                               ELSE 0,
         is_profitable |-> net_profit > 0]

\* The total fee rate of calculate_minimum_amount, in millionths.
TotalFeeRate(cl, buy_exchange, sell_exchange) ==
    (get_fees(buy_exchange).taker + get_fees(sell_exchange).taker
        + get_fees(buy_exchange).withdrawal) * 100
      + cl.default_slippage_pct

\* ProfitCalculator.calculate_minimum_amount(buy_exchange, sell_exchange,
\* spread_pct, target_profit_usd); spread_pct in E4, the net spread as a
\* rate in millionths.
calculate_minimum_amount(cl, buy_exchange, sell_exchange, spread_pct, target_profit_usd) ==
    LET total_fee_pct  == TotalFeeRate(cl, buy_exchange, sell_exchange)
        net_spread_pct == spread_pct - total_fee_pct
    IN  IF net_spread_pct <= 0 THEN -Dec(1)
        ELSE ScaledDiv(target_profit_usd, net_spread_pct, 6)

\* ------------------------------------------------------ command line: calc
DigitValue(c) ==
    CASE c = "0" -> 0 [] c = "1" -> 1 [] c = "2" -> 2 [] c = "3" -> 3
      [] c = "4" -> 4 [] c = "5" -> 5 [] c = "6" -> 6 [] c = "7" -> 7
      [] c = "8" -> 8 [] c = "9" -> 9 [] OTHER -> -1

IsDigit(c) == DigitValue(c) >= 0

RECURSIVE DigitsValue(_)
DigitsValue(digits) ==
    IF Len(digits) = 0 THEN 0
    ELSE DigitsValue(SubSeq(digits, 1, Len(digits) - 1)) * 10
            + DigitValue(digits[Len(digits)])

\* Decimal(text) for texts of a sign, digits and a point, of at most four
\* decimals: the E4 value, or not ok where Decimal raises InvalidOperation.
ParseDecimal(text) ==
    LET signed   == Len(text) > 0 /\ text[1] \in {"-", "+"}
        body     == IF signed THEN Tail(text) ELSE text
        points   == {i \in 1..Len(body) : body[i] = "."}
        point    == IF points = {} THEN Len(body) + 1
                    ELSE CHOOSE i \in points : TRUE
        int_part == SubSeq(body, 1, point - 1)
        fraction == SubSeq(body, point + 1, Len(body))
        valid    == /\ Cardinality(points) <= 1
                    /\ \A i \in 1..Len(body) : i \in points \/ IsDigit(body[i])
                    /\ Len(int_part) + Len(fraction) >= 1
                    /\ Len(fraction) <= 4
        value    == DigitsValue(int_part) * E4
                       + DigitsValue(fraction) * (10 ^ (4 - Len(fraction)))
    IN  IF valid
        THEN [ok |-> TRUE,
              value |-> IF signed /\ text[1] = "-" THEN -value ELSE value]
        ELSE [ok |-> FALSE]

\* text.split("/")
RECURSIVE SplitSlash(_)
SplitSlash(text) ==
    IF ~InList("/", text) THEN <<text>>
    ELSE LET i == CHOOSE k \in 1..Len(text) :
                     text[k] = "/" /\ \A j \in 1..(k - 1) : text[j] # "/"
         IN  <<SubSeq(text, 1, i - 1)>>
                \o SplitSlash(SubSeq(text, i + 1, Len(text)))

\* A Decimal of a quote as an E4 value.
ToE4(d) ==
    IF d.e >= -4 THEN d.m * (10 ^ (d.e + 4))
    ELSE ScaledDiv(d.m, 10 ^ (-4 - d.e), 0)

\* An option of the command line that was given.
Given(text) == [kind |-> "text", text |-> text]

\* run_calc ends with a return code, an error message when it printed one
\* and the breakdown when it printed one.
Exit(code, error, breakdown) ==
    [kind |-> "exit", code |-> code, error |-> error,
     breakdown |-> breakdown]

\* The price of one side of run_calc: the option when given and not empty,
\* else the first quote fetched from the exchange.
PriceOf(option, base, quote, exchange, side) ==
    IF ~IsNone(option) /\ Len(option.text) > 0
    THEN LET parsed == ParseDecimal(option.text)
         IN  IF parsed.ok THEN [kind |-> "price", value |-> parsed.value]
             ELSE Raised("decimal.InvalidOperation")
    ELSE LET quote_obj == fetch_all_prices(base, quote, <<exchange>>)
         IN  IF Len(quote_obj) > 0
             THEN [kind |-> "price",
                   value |-> ToE4(IF side = "ask" THEN quote_obj[1].ask
                                  ELSE quote_obj[1].bid)]
             ELSE [kind |-> "missing"]

\* arb_finder.run_calc(args)
run_calc(cli) ==
    LET amount == ParseDecimal(cli.amount)
        parts  == SplitSlash(cli.pair)
    IN  IF ~amount.ok THEN Exit(1, "Invalid amount", None)
        ELSE IF ~InList("/", cli.pair)
        THEN Exit(1, "Invalid pair format", None)
        ELSE IF Len(parts) # 2 THEN Raised("ValueError")
        ELSE
        LET base == parts[1]
            quote == parts[2]
            buy_price == PriceOf(cli.buy_price, base, quote,
                                 cli.buy_exchange, "ask")
            sell_price == PriceOf(cli.sell_price, base, quote,
                                  cli.sell_exchange, "bid")
        IN  IF IsRaised(buy_price) THEN buy_price
            ELSE IF buy_price.kind = "missing"
            THEN Exit(1, "Could not fetch price", None)
            ELSE IF IsRaised(sell_price) THEN sell_price
            ELSE IF sell_price.kind = "missing"
            THEN Exit(1, "Could not fetch price", None)
            ELSE
            LET breakdown ==
                    calculate([gas_price_gwei |-> cli.gas_price,
                               eth_price_usd |-> cli.eth_price,
                               default_slippage_pct |-> 1000],
                              cli.pair, cli.buy_exchange, cli.sell_exchange,
                              buy_price.value, sell_price.value, amount.value,
                              TRUE, CEX, CEX)
            IN  IF IsRaised(breakdown) THEN breakdown
                ELSE Exit(IF breakdown.is_profitable THEN 0 ELSE 1, "",
                          breakdown)

\* ============================================================ state machine
\* scanner, finder, calc: the fields of one OpportunityScanner, one
\* TriangularFinder and one ProfitCalculator; pc, args, ret: the call in
\* progress, its arguments and its return value.  tables: the class-level
\* dictionaries every instance shares.  threads: the calls of the threads
\* that use the three objects at the same time.

\* The tables as the class bodies create them.
ClassTables ==
    [CEX_CONFIGS |-> CEX_CONFIGS, DEX_CONFIGS |-> DEX_CONFIGS,
     EXCHANGE_FEES |-> EXCHANGE_FEES, GAS_COSTS |-> GAS_COSTS,
     MOCK_PAIRS |-> MOCK_PAIRS]

Threads == {1, 2}

IdleThread == [pc |-> "idle"]

NoThreads == [t \in Threads |-> IdleThread]

\* _build_quote: a quote carries the type of its venue's configuration, CEX
\* when the venue has none.
VenueType(name) ==
    LET config == get_exchange_config(NormalizeVenue(name))
    IN  IF config.found THEN config.config.exchange_type ELSE CEX

\* Input sets.  Prices step by halves so that every fee product is exact.
QuoteVenues == {NameBinance, NameCoinbase, NameUniswapV3, NameBitfinex}

BidAsk == {<<Dec(100), Dec(100)>>, <<Dec(100), Dec(100) + 5000>>,
           <<Dec(100) + 5000, Dec(101)>>, <<Dec(101), Dec(103)>>,
           <<Dec(103), Dec(106)>>, <<Dec(106), Dec(106)>>}

Volumes == {Dec(500), Dec(50000)}

Ages == {0, 45}

Quote(venue, ba, volume, age) ==
    [exchange |-> venue, exchange_type |-> VenueType(venue),
     bid |-> ba[1], ask |-> ba[2], volume_24h |-> volume, age |-> age]

\* Quotes handed to _evaluate_opportunity.
EvalQuotes ==
    {Quote(v, ba, vol, age) : v \in QuoteVenues, ba \in BidAsk,
                              vol \in Volumes, age \in Ages}

\* Quotes the price source hands to scan: fetched just now.
ScanQuotes ==
    {Quote(v, ba, Dec(50000), 0) :
        v \in {NameBinance, NameCoinbase, NameUniswapV3},
        ba \in {<<Dec(100), Dec(100) + 5000>>, <<Dec(100) + 5000, Dec(101)>>,
                <<Dec(101), Dec(103)>>, <<Dec(106), Dec(106)>>}}

SeqsUpTo(S, n) == UNION {[1..k -> S] : k \in 0..n}

ScannerConfigs ==
    {[min_profit_pct |-> m, gas_price_gwei |-> DefaultGasPriceGwei,
      eth_price_usd |-> DefaultEthPriceUsd] : m \in {0, 1000, 5000}}

DefaultScanner ==
    [min_profit_pct |-> 1000, gas_price_gwei |-> DefaultGasPriceGwei,
     eth_price_usd |-> DefaultEthPriceUsd]

DefaultFinder == [fee_rate |-> 10, min_profit_pct |-> 1000]

DefaultCalc ==
    [gas_price_gwei |-> DefaultGasPriceGwei,
     eth_price_usd |-> DefaultEthPriceUsd, default_slippage_pct |-> 1000]

NoArgs == [op |-> "none"]

Idle == pc = "idle"

\* OpportunityScanner._evaluate_opportunity(buy_quote, sell_quote)
Evaluate ==
    /\ Idle
    /\ \E buy_quote \in EvalQuotes, sell_quote \in EvalQuotes :
          /\ args' = [op |-> "evaluate", buy_quote |-> buy_quote,
                      sell_quote |-> sell_quote]
          /\ ret' = evaluate_opportunity(scanner, buy_quote, sell_quote)
    /\ pc' = "done"
    /\ UNCHANGED <<scanner, finder, calc, tables, threads>>

\* OpportunityScanner.scan(base, quote), the price source returning quotes.
Scan ==
    /\ Idle
    /\ \E quotes \in SeqsUpTo(ScanQuotes, MaxQuotes) :
          /\ args' = [op |-> "scan", quotes |-> quotes]
          /\ ret' = scan(scanner, quotes)
    /\ pc' = "done"
    /\ UNCHANGED <<scanner, finder, calc, tables, threads>>

\* The call returns to its caller.
Return ==
    /\ pc = "done"
    /\ pc' = "idle"
    /\ args' = NoArgs
    /\ ret' = None
    /\ UNCHANGED <<scanner, finder, calc, tables, threads>>

ScannerInit ==
    /\ tables = ClassTables
    /\ threads = NoThreads
    /\ scanner \in ScannerConfigs
    /\ finder = DefaultFinder
    /\ calc = DefaultCalc
    /\ pc = "idle"
    /\ args = NoArgs
    /\ ret = None

ScannerNext == Evaluate \/ Scan \/ Return

ScannerSpec == ScannerInit /\ [][ScannerNext]_vars

\* ------------------------------------------------ calls of TriangularFinder
Tokens == {"BNB", "BTC", "ETH", "USD", "USDC", "USDT"}

\* Pairs a caller may pass: a consistent ETH/BTC/USDT triangle, a mispriced
\* and a reversed BTC/USDT pair at another fee, a pair of a token with
\* itself, and two pairs of a fourth token.
PairUniverse ==
    {TradingPair("ETH", "USDT", D(6, 0), D(6, 0), 10, KeyBinance),
     TradingPair("ETH", "BTC", D(2, 0), D(2, 0), 10, KeyBinance),
     TradingPair("BTC", "USDT", D(3, 0), D(3, 0), 10, KeyBinance),
     TradingPair("BTC", "USDT", D(31, -1), D(32, -1), 10, KeyBinance),
     TradingPair("USDT", "BTC", D(36, -2), D(37, -2), 60, KeyBinance),
     TradingPair("ETH", "ETH", D(1, 0), D(1, 0), 10, KeyBinance),
     TradingPair("BNB", "ETH", D(5, -1), D(5, -1), 10, KeyBinance),
     TradingPair("BNB", "BTC", D(11, -1), D(12, -1), 10, KeyBinance)}

FinderExchanges == {NameBinance, KeyCoinbase, NameBitfinex}

FinderConfigs ==
    {[fee_rate |-> 10, min_profit_pct |-> m] : m \in {1000, -6500, -10000}}

\* TriangularFinder.find_opportunities(exchange, pairs)
FindOpportunities ==
    /\ Idle
    /\ \E call \in ({[exchange |-> KeyBinance, pairs |-> SomePairs(l)] :
                        l \in SeqsUpTo(PairUniverse, MaxPairs)}
                    \cup {[exchange |-> e, pairs |-> None] :
                        e \in FinderExchanges}) :
          LET pairs == ResolvePairs(call.exchange, call.pairs)
              triangle_set == find_triangles(pairs)
          IN  \E path_of \in {EvaluateEach(triangle_set, pairs, call.exchange)},
                 triangles \in Orderings(triangle_set) :
                /\ args' = [op |-> "find_opportunities",
                            exchange |-> call.exchange,
                            given |-> call.pairs, pairs |-> pairs]
                /\ ret' = [kind |-> "paths",
                           paths |-> FindIn(finder, pairs, triangles, path_of)]
    /\ pc' = "done"
    /\ UNCHANGED <<scanner, finder, calc, tables, threads>>

\* TriangularFinder.analyze_single_triangle(token_a, token_b, token_c,
\* exchange); the tokens are given in upper case.
AnalyzeSingleTriangle ==
    /\ Idle
    /\ \E token_a \in Tokens, token_b \in Tokens, token_c \in Tokens,
          exchange \in FinderExchanges :
          /\ args' = [op |-> "analyze_single_triangle",
                      triangle |-> <<token_a, token_b, token_c>>,
                      exchange |-> exchange,
                      pairs |-> MockPairsOf(exchange)]
          /\ ret' = evaluate_triangle(<<token_a, token_b, token_c>>,
                                      MockPairsOf(exchange), exchange)
    /\ pc' = "done"
    /\ UNCHANGED <<scanner, finder, calc, tables, threads>>

FinderInit ==
    /\ tables = ClassTables
    /\ threads = NoThreads
    /\ scanner = DefaultScanner
    /\ finder \in FinderConfigs
    /\ calc = DefaultCalc
    /\ pc = "idle"
    /\ args = NoArgs
    /\ ret = None

FinderNext == FindOpportunities \/ AnalyzeSingleTriangle \/ Return

FinderSpec == FinderInit /\ [][FinderNext]_vars

\* ------------------------------------------------ calls of ProfitCalculator
CalcVenues ==
    {NameBinance, NameCoinbase, NameUniswapV3, NameCurve, NameBitfinex}

\* Trades a caller may ask about: small and large against the default
\* liquidity, with a gain, without one and with a loss before costs,
\* 10 ETH bought at Binance's ask and sold at Coinbase's bid, and a trade
\* that at fees of 0.1% a leg nets 0.0001 above its costs.  Every cost of
\* these trades but a gas cost has at most four decimals, so E4 holds it
\* exactly.
CalcTrades ==
    {[amount |-> Dec(10), buy_price |-> 25415000, sell_price |-> 25438000],
     [amount |-> Dec(1), buy_price |-> 999428000, sell_price |-> 1006431000],
     [amount |-> Dec(1), buy_price |-> Dec(2500), sell_price |-> Dec(2525)],
     [amount |-> Dec(1), buy_price |-> Dec(2500), sell_price |-> Dec(2550)],
     [amount |-> Dec(1), buy_price |-> Dec(2500), sell_price |-> Dec(2490)],
     [amount |-> Dec(200), buy_price |-> Dec(1), sell_price |-> Dec(1) + 50],
     [amount |-> Dec(1000), buy_price |-> Dec(1), sell_price |-> Dec(1)],
     [amount |-> Dec(10000), buy_price |-> Dec(2),
      sell_price |-> Dec(2) + 500],
     [amount |-> Dec(60000), buy_price |-> Dec(1),
      sell_price |-> Dec(1) + 500]}

CalcConfigs ==
    {[gas_price_gwei |-> g, eth_price_usd |-> DefaultEthPriceUsd,
      default_slippage_pct |-> s] : g \in {30, 60}, s \in {1000, 2000}}

\* Spreads in E4 percent and target profits asked of
\* calculate_minimum_amount.
Spreads == {900, 3000, 3500, 5000, 13500}

Targets == {Dec(5), Dec(10)}

Liquidities == {50000, 500000, DefaultLiquidityUsd}

\* ProfitCalculator.calculate(...)
Calculate ==
    /\ Idle
    /\ \E buy_exchange \in CalcVenues, sell_exchange \in CalcVenues,
          trade \in CalcTrades, include_withdrawal \in BOOLEAN,
          buy_exchange_type \in {CEX, DEX},
          sell_exchange_type \in {CEX, DEX} :
          /\ args' = [op |-> "calculate",
                      buy_exchange |-> buy_exchange,
                      sell_exchange |-> sell_exchange,
                      buy_price |-> trade.buy_price,
                      sell_price |-> trade.sell_price,
                      amount |-> trade.amount,
                      include_withdrawal |-> include_withdrawal,
                      buy_exchange_type |-> buy_exchange_type,
                      sell_exchange_type |-> sell_exchange_type]
          /\ ret' = calculate(calc, "ETH/USDC", buy_exchange, sell_exchange,
                              trade.buy_price, trade.sell_price,
                              trade.amount, include_withdrawal,
                              buy_exchange_type, sell_exchange_type)
    /\ pc' = "done"
    /\ UNCHANGED <<scanner, finder, calc, tables, threads>>

\* ProfitCalculator.estimate_slippage(amount, price, liquidity_usd)
EstimateSlippage ==
    /\ Idle
    /\ \E trade \in CalcTrades, liquidity_usd \in Liquidities :
          /\ args' = [op |-> "estimate_slippage", amount |-> trade.amount,
                      price |-> trade.buy_price,
                      liquidity_usd |-> liquidity_usd]
          /\ ret' = estimate_slippage(calc, trade.amount, trade.buy_price,
                                      liquidity_usd)
    /\ pc' = "done"
    /\ UNCHANGED <<scanner, finder, calc, tables, threads>>

\* ProfitCalculator.calculate_minimum_amount(...)
CalculateMinimumAmount ==
    /\ Idle
    /\ \E buy_exchange \in CalcVenues, sell_exchange \in CalcVenues,
          spread_pct \in Spreads, target_profit_usd \in Targets :
          /\ args' = [op |-> "calculate_minimum_amount",
                      buy_exchange |-> buy_exchange,
                      sell_exchange |-> sell_exchange,
                      spread_pct |-> spread_pct,
                      target_profit_usd |-> target_profit_usd]
          /\ ret' = [kind |-> "amount",
                     amount |-> calculate_minimum_amount(
                                    calc, buy_exchange, sell_exchange,
                                    spread_pct, target_profit_usd)]
    /\ pc' = "done"
    /\ UNCHANGED <<scanner, finder, calc, tables, threads>>

CalcInit ==
    /\ tables = ClassTables
    /\ threads = NoThreads
    /\ scanner = DefaultScanner
    /\ finder = DefaultFinder
    /\ calc \in CalcConfigs
    /\ pc = "idle"
    /\ args = NoArgs
    /\ ret = None

CalcNext == Calculate \/ EstimateSlippage \/ CalculateMinimumAmount \/ Return

CalcSpec == CalcInit /\ [][CalcNext]_vars

\* --------------------------------------------------- calls of the calc command
AmountTexts ==
    {<<"1">>, <<"0", ".", "5">>, <<"0">>, <<"-", "1">>, <<"a", "b", "c">>,
     <<>>}

PairTexts ==
    {TokETH \o <<"/">> \o TokUSDC, Lower(TokETH \o <<"/">> \o TokUSDC),
     TokUSDC \o <<"/">> \o TokUSDT, TokETH \o TokUSDC,
     TokETH \o <<"/">> \o TokUSDC \o <<"/">> \o TokUSDT, TokETH \o <<"/">>}

CliExchanges == {KeyBinance, NameCoinbase, NameUniswapV3, NameBitfinex}

\* --buy-price and --sell-price: both left to the price source, or both given.
PriceOptions ==
    {[buy_price |-> None, sell_price |-> None],
     [buy_price |-> Given(<<"2", "5", "0", "0">>),
      sell_price |-> Given(<<"2", "5", "5", "0">>)]}

\* arb_finder.py calc --buy-exchange ... --sell-exchange ... --pair ...
\* --amount ... [--buy-price ...] [--sell-price ...]
RunCalc ==
    /\ Idle
    /\ \E amount \in AmountTexts, pair \in PairTexts,
          buy_exchange \in CliExchanges, sell_exchange \in CliExchanges,
          prices \in PriceOptions :
          LET cli == [op |-> "run_calc", amount |-> amount, pair |-> pair,
                      buy_exchange |-> buy_exchange,
                      sell_exchange |-> sell_exchange,
                      buy_price |-> prices.buy_price,
                      sell_price |-> prices.sell_price,
                      gas_price |-> DefaultGasPriceGwei,
                      eth_price |-> DefaultEthPriceUsd]
          IN  /\ args' = cli
              /\ ret' = run_calc(cli)
    /\ pc' = "done"
    /\ UNCHANGED <<scanner, finder, calc, tables, threads>>

CliInit ==
    /\ tables = ClassTables
    /\ threads = NoThreads
    /\ scanner = DefaultScanner
    /\ finder = DefaultFinder
    /\ calc = DefaultCalc
    /\ pc = "idle"
    /\ args = NoArgs
    /\ ret = None

CliNext == RunCalc \/ Return

CliSpec == CliInit /\ [][CliNext]_vars

\* ------------------------------------------------------ calls of _assess_risk
RiskAges == {0, 10, 11, 45}

RiskVolumes == {Dec(500), Dec(1000), Dec(5000), Dec(10000), Dec(50000)}

RiskSpreads == {-Dec(1), Dec(1), Dec(2), Dec(2) + 1, Dec(5), Dec(5) + 1}

RiskTypes == {CEX, DEX}

\* The legs _assess_risk reads: age, venue type and volume.
RiskQuotes ==
    {[exchange |-> NameBinance, exchange_type |-> t, bid |-> Dec(100),
      ask |-> Dec(100), volume_24h |-> v, age |-> a] :
        t \in RiskTypes, v \in RiskVolumes, a \in RiskAges}

\* OpportunityScanner._assess_risk(buy_quote, sell_quote, net_spread_pct)
AssessRisk ==
    /\ Idle
    /\ \E buy_quote \in RiskQuotes, sell_quote \in RiskQuotes,
          net_spread_pct \in RiskSpreads :
          /\ args' = [op |-> "assess_risk", buy_quote |-> buy_quote,
                      sell_quote |-> sell_quote,
                      net_spread_pct |-> net_spread_pct]
          /\ ret' = [kind |-> "risk",
                     level |-> assess_risk(buy_quote, sell_quote,
                                           net_spread_pct)]
    /\ pc' = "done"
    /\ UNCHANGED <<scanner, finder, calc, tables, threads>>

RiskInit ==
    /\ tables = ClassTables
    /\ threads = NoThreads
    /\ scanner = DefaultScanner
    /\ finder = DefaultFinder
    /\ calc = DefaultCalc
    /\ pc = "idle"
    /\ args = NoArgs
    /\ ret = None

RiskNext == AssessRisk \/ Return

RiskSpec == RiskInit /\ [][RiskNext]_vars

\* --------------------------------------- calls of evaluate at other gas costs
GasScannerConfigs ==
    {[min_profit_pct |-> 1000, gas_price_gwei |-> g, eth_price_usd |-> e] :
        g \in {DefaultGasPriceGwei, 60}, e \in {DefaultEthPriceUsd, 3000}}

\* A quote a caller built for a DEX the registry does not list.
OnChain(q) == [q EXCEPT !.exchange_type = DEX]

\* Fresh quotes of a CEX, of three listed DEXes and of an unlisted one.
GasQuotes ==
    {Quote(v, ba, Dec(50000), 0) :
        v \in {NameBinance, NameUniswapV3, NameCurve, NameBalancer},
        ba \in BidAsk}
    \cup {OnChain(Quote(NameBitfinex, ba, Dec(50000), 0)) : ba \in BidAsk}

\* OpportunityScanner._evaluate_opportunity(buy_quote, sell_quote) on quotes
\* of on-chain venues.
EvaluateOnChain ==
    /\ Idle
    /\ \E buy_quote \in GasQuotes, sell_quote \in GasQuotes :
          /\ args' = [op |-> "evaluate", buy_quote |-> buy_quote,
                      sell_quote |-> sell_quote]
          /\ ret' = evaluate_opportunity(scanner, buy_quote, sell_quote)
    /\ pc' = "done"
    /\ UNCHANGED <<scanner, finder, calc, tables, threads>>

GasInit ==
    /\ tables = ClassTables
    /\ threads = NoThreads
    /\ scanner \in GasScannerConfigs
    /\ finder = DefaultFinder
    /\ calc = DefaultCalc
    /\ pc = "idle"
    /\ args = NoArgs
    /\ ret = None

GasNext == EvaluateOnChain \/ Return

GasSpec == GasInit /\ [][GasNext]_vars

\* ------------------------------------- calls that look a venue's fees up
\* _evaluate_opportunity and calculate, the two operations that read a fee
\* table by venue name, on one scanner and one calculator.
FeeLookupInit ==
    /\ tables = ClassTables
    /\ threads = NoThreads
    /\ scanner \in ScannerConfigs
    /\ finder = DefaultFinder
    /\ calc \in CalcConfigs
    /\ pc = "idle"
    /\ args = NoArgs
    /\ ret = None

FeeLookupNext == Evaluate \/ Calculate \/ Return

FeeLookupSpec == FeeLookupInit /\ [][FeeLookupNext]_vars

\* ------------------------------------------------- calls of the price source
FetchTokens == {TokETH, TokBTC, TokUSDC, TokUSDT, <<"e", "t", "h">>}

\* PriceFetcher.list_exchanges(): the keys of CEX_CONFIGS, then of
\* DEX_CONFIGS, in the order the class bodies list them.
list_exchanges ==
    <<KeyBinance, KeyCoinbase, KeyKraken, KeyKucoin, KeyOkx, KeyUniswap,
      KeySushiswap, KeyCurve, KeyBalancer>>

FetchExchanges == ListItems(list_exchanges) \cup {NameBinance, NameBitfinex}

\* PriceFetcher.fetch_price(base, quote, exchange)
FetchPrice ==
    /\ Idle
    /\ \E base \in FetchTokens, quote \in FetchTokens,
          exchange \in FetchExchanges :
          /\ args' = [op |-> "fetch_price", base |-> base, quote |-> quote,
                      exchange |-> exchange]
          /\ ret' = get_mock_price(base, quote, exchange)
    /\ pc' = "done"
    /\ UNCHANGED <<scanner, finder, calc, tables, threads>>

\* PriceFetcher.fetch_all_prices_sync(base, quote)
FetchAllPrices ==
    /\ Idle
    /\ \E base \in FetchTokens, quote \in FetchTokens :
          /\ args' = [op |-> "fetch_all_prices", base |-> base,
                      quote |-> quote]
          /\ ret' = [kind |-> "quotes",
                     quotes |-> fetch_all_prices(base, quote, list_exchanges)]
    /\ pc' = "done"
    /\ UNCHANGED <<scanner, finder, calc, tables, threads>>

FetchInit ==
    /\ tables = ClassTables
    /\ threads = NoThreads
    /\ scanner = DefaultScanner
    /\ finder = DefaultFinder
    /\ calc = DefaultCalc
    /\ pc = "idle"
    /\ args = NoArgs
    /\ ret = None

FetchNext == FetchPrice \/ FetchAllPrices \/ Return

FetchSpec == FetchInit /\ [][FetchNext]_vars

\* ------------------------------------- calls of evaluate on the mock market
\* The quote the scanner receives for a quote of the price source, read
\* after age seconds: the prices and the volume as E4 values.
MarketQuote(q, age) ==
    [exchange |-> q.exchange, exchange_type |-> q.exchange_type,
     bid |-> ToE4(q.bid), ask |-> ToE4(q.ask),
     volume_24h |-> Dec(q.volume_24h), age |-> age]

\* The ETH/USDC quotes of every venue that lists the pair.
MarketQuotes ==
    {MarketQuote(get_mock_price(TokETH, TokUSDC, e), age) :
        e \in {x \in ListItems(list_exchanges) :
                  ~IsNone(get_mock_price(TokETH, TokUSDC, x))},
        age \in Ages}

\* OpportunityScanner._evaluate_opportunity(buy_quote, sell_quote) on quotes
\* of the price source.
EvaluateMarket ==
    /\ Idle
    /\ \E buy_quote \in MarketQuotes, sell_quote \in MarketQuotes :
          /\ args' = [op |-> "evaluate", buy_quote |-> buy_quote,
                      sell_quote |-> sell_quote]
          /\ ret' = evaluate_opportunity(scanner, buy_quote, sell_quote)
    /\ pc' = "done"
    /\ UNCHANGED <<scanner, finder, calc, tables, threads>>

MarketInit ==
    /\ tables = ClassTables
    /\ threads = NoThreads
    /\ scanner \in ScannerConfigs
    /\ finder = DefaultFinder
    /\ calc = DefaultCalc
    /\ pc = "idle"
    /\ args = NoArgs
    /\ ret = None

MarketNext == EvaluateMarket \/ Return

MarketSpec == MarketInit /\ [][MarketNext]_vars

\* ------------------------------------------------------------ concurrent calls
\* Two threads call evaluate, scan, find_opportunities and calculate on the
\* same three objects.  A call begins, runs and returns; between the steps
\* of one thread the other may take any of its own.

ConcurrentQuotes ==
    {Quote(NameBinance, <<Dec(100), Dec(100) + 5000>>, Dec(50000), 0),
     Quote(NameCoinbase, <<Dec(101), Dec(103)>>, Dec(50000), 0),
     Quote(NameUniswapV3, <<Dec(103), Dec(106)>>, Dec(50000), 0)}

ConcurrentPairs ==
    <<TradingPair("ETH", "USDT", D(6, 0), D(6, 0), 10, KeyBinance),
      TradingPair("ETH", "BTC", D(2, 0), D(2, 0), 10, KeyBinance),
      TradingPair("USDT", "BTC", D(36, -2), D(37, -2), 60, KeyBinance)>>

ConcurrentCalls ==
    {[op |-> "evaluate", buy_quote |-> b, sell_quote |-> s] :
        b \in ConcurrentQuotes, s \in ConcurrentQuotes}
    \cup {[op |-> "scan", quotes |-> q] : q \in [1..2 -> ConcurrentQuotes]}
    \cup {[op |-> "find_opportunities", exchange |-> e, pairs |-> None] :
            e \in FinderExchanges}
    \cup {[op |-> "find_opportunities", exchange |-> KeyBinance,
           pairs |-> SomePairs(ConcurrentPairs)]}
    \cup {[op |-> "calculate", buy_exchange |-> b, sell_exchange |-> s,
           buy_price |-> Dec(2500), sell_price |-> Dec(2550),
           amount |-> Dec(1), include_withdrawal |-> TRUE,
           buy_exchange_type |-> VenueType(b),
           sell_exchange_type |-> VenueType(s)] :
            b \in {NameCoinbase, NameUniswapV3},
            s \in {NameBinance, NameCurve}}

\* The order in which the process iterates a set: [t for t in triangles].
\* It is fixed by the hash seed the process started with.
IterationOrder(S) == CHOOSE o \in Orderings(S) : TRUE

\* What the call returns.
CallResult(call) ==
    CASE call.op = "evaluate" ->
            evaluate_opportunity(scanner, call.buy_quote, call.sell_quote)
      [] call.op = "scan" -> scan(scanner, call.quotes)
      [] call.op = "find_opportunities" ->
            LET pairs == ResolvePairs(call.exchange, call.pairs)
                triangle_set == find_triangles(pairs)
            IN  [kind |-> "paths",
                 paths |-> FindIn(finder, pairs, IterationOrder(triangle_set),
                                  EvaluateEach(triangle_set, pairs,
                                               call.exchange))]
      [] call.op = "calculate" ->
            calculate(calc, "ETH/USDC", call.buy_exchange, call.sell_exchange,
                      call.buy_price, call.sell_price, call.amount,
                      call.include_withdrawal, call.buy_exchange_type,
                      call.sell_exchange_type)

\* Mutant of TablesAfter: calculate takes the buy venue's fees out of the
\* table (dict.pop for dict.get).
TablesAfterPop(call) ==
    IF call.op = "calculate"
    THEN [tables EXCEPT !.EXCHANGE_FEES =
             [k \in DOMAIN @ \ {NormalizeVenue(call.buy_exchange)} |-> @[k]]]
    ELSE tables

\* The shared tables when the call has run: no operation assigns to them
\* or to an entry of them.
TablesAfter(call) == tables

\* The quotes and pairs of the caller when the call has run: the operations
\* build new lists and leave the ones they were given.
ArgumentsAfter(call) == call

\* A thread calls an operation.
Begin(t) ==
    /\ threads[t].pc = "idle"
    /\ \E call \in ConcurrentCalls :
          threads' = [threads EXCEPT
                         ![t] = [pc |-> "called", call |-> call,
                                 passed |-> call, ret |-> None]]
    /\ UNCHANGED <<scanner, finder, calc, pc, args, ret, tables>>

\* The body of the operation runs.
Run(t) ==
    /\ threads[t].pc = "called"
    /\ threads' = [threads EXCEPT
                      ![t] = [pc |-> "done", call |-> @.call,
                              passed |-> ArgumentsAfter(@.passed),
                              ret |-> CallResult(@.passed)]]
    /\ tables' = TablesAfter(threads[t].passed)
    /\ UNCHANGED <<scanner, finder, calc, pc, args, ret>>

\* The caller takes the result.
Finish(t) ==
    /\ threads[t].pc = "done"
    /\ threads' = [threads EXCEPT ![t] = IdleThread]
    /\ UNCHANGED <<scanner, finder, calc, pc, args, ret, tables>>

ConcurrentInit ==
    /\ tables = ClassTables
    /\ threads = NoThreads
    /\ scanner = DefaultScanner
    /\ finder = DefaultFinder
    /\ calc = DefaultCalc
    /\ pc = "idle"
    /\ args = NoArgs
    /\ ret = None

ConcurrentNext == \E t \in Threads : Begin(t) \/ Run(t) \/ Finish(t)

ConcurrentSpec == ConcurrentInit /\ [][ConcurrentNext]_vars

\* ------------------------------------------------- claims: direct scanner

\* C1: whenever sell_quote.bid <= buy_quote.ask, _evaluate_opportunity
\* returns None, whatever the venues, fees, volumes and ages of the quotes.
C1_NoSpreadReturnsNone ==
    (pc = "done" /\ args.op = "evaluate"
     /\ args.sell_quote.bid <= args.buy_quote.ask)
        => IsNone(ret)

\* C1 witness: equal prices on a DEX leg with a stale quote, rejected.
C1_Witness ==
    /\ pc = "done" /\ args.op = "evaluate"
    /\ args.sell_quote.bid = args.buy_quote.ask
    /\ args.buy_quote.exchange_type = DEX
    /\ args.sell_quote.age > 10
    /\ IsNone(ret)

\* The fee rate (E4) a returned opportunity reports as a percentage.
RateOfPct(fee_pct) == fee_pct \div 100

\* net_profit_per_unit as the claim states it, from the quotes and the fee
\* rates the opportunity reports.
StatedNetProfit(buy_quote, sell_quote, opp) ==
    (sell_quote.bid - buy_quote.ask)
    - (DecMul(buy_quote.ask, RateOfPct(opp.buy_fee_pct))
       + DecMul(sell_quote.bid, RateOfPct(opp.sell_fee_pct)))

\* C2: for every opportunity evaluate returns, is_profitable holds exactly
\* when net_profit_per_unit > 0, net_spread_pct has the sign of
\* net_profit_per_unit, and net_profit_per_unit is the gross spread less the
\* two taker fees.
C2_ProfitableIffNetPositive ==
    (pc = "done" /\ args.op = "evaluate" /\ ~IsNone(ret)) =>
        LET stated == StatedNetProfit(args.buy_quote, args.sell_quote, ret)
        IN  /\ ret.net_profit_per_unit = stated
            /\ is_profitable(ret) <=> (stated > 0)
            /\ Sgn(ret.net_spread_pct) = Sgn(stated)

\* C2 witness: a positive gross spread that the fees turn into a loss.
C2_Witness ==
    /\ pc = "done" /\ args.op = "evaluate" /\ ~IsNone(ret)
    /\ ret.gross_profit_per_unit > 0
    /\ ret.net_profit_per_unit < 0
    /\ ret.net_spread_pct < 0
    /\ ~is_profitable(ret)

\* C3: in every ScanResult, each opportunity has net_spread_pct >=
\* min_profit_pct, the opportunities are in non-increasing order of
\* net_spread_pct, and best_opportunity is the first of them, None exactly
\* when there is none.
C3_ScanFilteredSortedBest ==
    (pc = "done" /\ args.op = "scan") =>
        LET opps == ret.opportunities
        IN  /\ \A k \in 1..Len(opps) :
                  opps[k].net_spread_pct >= scanner.min_profit_pct
            /\ \A k \in 1..(Len(opps) - 1) :
                  opps[k].net_spread_pct >= opps[k + 1].net_spread_pct
            /\ IsNone(ret.best_opportunity) <=> (Len(opps) = 0)
            /\ Len(opps) > 0 =>
                  /\ ret.best_opportunity = opps[1]
                  /\ \A k \in 1..Len(opps) :
                        ret.best_opportunity.net_spread_pct
                            >= opps[k].net_spread_pct

\* C3 witness: a scan that dropped a candidate below the threshold and
\* returned several opportunities of different net spread.
C3_Witness ==
    /\ pc = "done" /\ args.op = "scan"
    /\ Len(ret.opportunities) >= 2
    /\ ret.opportunities[1].net_spread_pct
          > ret.opportunities[Len(ret.opportunities)].net_spread_pct
    /\ \E i, j \in 1..Len(args.quotes) :
          LET opp == evaluate_opportunity(scanner, args.quotes[i],
                                          args.quotes[j])
          IN  /\ args.quotes[i].exchange # args.quotes[j].exchange
              /\ ~IsNone(opp)
              /\ opp.net_spread_pct < scanner.min_profit_pct

\* The ordered pairs (i, j) of quotes that the claim says scan reports.
QualifyingPairs(sc, quotes) ==
    {p \in (1..Len(quotes)) \X (1..Len(quotes)) :
        /\ p[1] # p[2]
        /\ quotes[p[1]].exchange # quotes[p[2]].exchange
        /\ LET opp == evaluate_opportunity(sc, quotes[p[1]], quotes[p[2]])
           IN  ~IsNone(opp) /\ opp.net_spread_pct >= sc.min_profit_pct}

\* C4: the opportunities of a scan are, one for one, the evaluations of the
\* ordered pairs (i, j), i # j, of quotes from different venues that are
\* non-null and meet min_profit_pct; none has buy_exchange = sell_exchange;
\* fewer than two quotes give no opportunity and best_opportunity = None.
C4_ScanCoversOrderedPairs ==
    (pc = "done" /\ args.op = "scan") =>
        LET opps  == ret.opportunities
            pairs == QualifyingPairs(scanner, args.quotes)
            eval(p) == evaluate_opportunity(scanner, args.quotes[p[1]],
                                            args.quotes[p[2]])
        IN  /\ Len(opps) = Cardinality(pairs)
            /\ \A p \in pairs :
                  Cardinality({k \in 1..Len(opps) : opps[k] = eval(p)})
                      = Cardinality({q \in pairs : eval(q) = eval(p)})
            /\ \A k \in 1..Len(opps) :
                  opps[k].buy_exchange # opps[k].sell_exchange
            /\ Len(args.quotes) < 2 =>
                  (Len(opps) = 0 /\ IsNone(ret.best_opportunity))

\* C4 witness: three quotes, two of them from one venue with a positive
\* spread between them, and an opportunity reported across venues.
C4_Witness ==
    /\ pc = "done" /\ args.op = "scan"
    /\ Len(args.quotes) = 3
    /\ \E i, j \in 1..3 :
          /\ i # j
          /\ args.quotes[i].exchange = args.quotes[j].exchange
          /\ args.quotes[j].bid > args.quotes[i].ask
    /\ Len(ret.opportunities) >= 2

\* ----------------------------------------------- claims: triangular finder

\* The paths a finder call returned: the list of find_opportunities, the
\* path of analyze_single_triangle when it is not None.
ReturnedPaths ==
    IF pc = "done" /\ args.op = "find_opportunities" THEN ListItems(ret.paths)
    ELSE IF pc = "done" /\ args.op = "analyze_single_triangle" /\ ~IsNone(ret)
    THEN {ret}
    ELSE {}

\* C5: every path find_opportunities returns has net_profit_pct >=
\* min_profit_pct, the list is in non-increasing order of net_profit_pct, and
\* an empty pair list or an exchange without mock pairs gives the empty list.
C5_FindFilteredSorted ==
    (pc = "done" /\ args.op = "find_opportunities") =>
        /\ \A k \in 1..Len(ret.paths) :
              ret.paths[k].net_profit_pct >= finder.min_profit_pct
        /\ \A k \in 1..(Len(ret.paths) - 1) :
              ret.paths[k].net_profit_pct >= ret.paths[k + 1].net_profit_pct
        /\ (~IsNone(args.given) /\ Len(args.given.list) = 0)
              => Len(ret.paths) = 0
        /\ (IsNone(args.given) /\ Lower(args.exchange) \notin DOMAIN MOCK_PAIRS)
              => Len(ret.paths) = 0

\* C5 witness: several paths of different net profit returned while another
\* triangle of the pair list fell below the threshold.
C5_Witness ==
    /\ pc = "done" /\ args.op = "find_opportunities"
    /\ Len(ret.paths) >= 2
    /\ ret.paths[1].net_profit_pct > ret.paths[Len(ret.paths)].net_profit_pct
    /\ Cardinality(find_triangles(args.pairs)) > Len(ret.paths)

\* C6 (as claimed): every path has a cycle of 4 tokens that ends where it
\* starts, whose first three tokens are pairwise distinct, with 3 pairs and
\* 3 execution steps.
C6_CycleOfThreeDistinctTokens ==
    \A path \in ReturnedPaths :
        /\ Len(path.tokens) = 4
        /\ path.tokens[1] = path.tokens[4]
        /\ path.tokens[1] # path.tokens[2]
        /\ path.tokens[2] # path.tokens[3]
        /\ path.tokens[1] # path.tokens[3]
        /\ Len(path.pairs) = 3
        /\ Len(path.execution_steps) = 3

\* The amount that walking a path's steps gives, the fee of the pair used
\* taken after each step.
RECURSIVE AmountAfter(_, _)
AmountAfter(path, k) ==
    IF k = 0 THEN D(10, -1)
    ELSE LET before == AmountAfter(path, k - 1)
             step   == path.execution_steps[k]
             traded == IF step.kind = "Sell" THEN DMul(before, step.price)
                       ELSE DDiv(before, step.price)
         IN  DMul(traded, D(E4 - path.pairs[k].fee_rate, -4))

RECURSIVE SumFeePct(_, _)
SumFeePct(pairs, k) ==
    IF k = 0 THEN 0 ELSE SumFeePct(pairs, k - 1) + pairs[k].fee_rate * 100

\* C7: for every path, total_fees_pct is the sum of fee_rate * 100 over its
\* hops, gross_profit_pct is (final_amount - 1) * 100 with (1 - fee_rate)
\* applied at each hop, and net_profit_pct = gross_profit_pct - total_fees_pct.
C7_FeesCountedTwice ==
    \A path \in ReturnedPaths :
        /\ path.total_fees_pct = SumFeePct(path.pairs, Len(path.pairs))
        /\ path.gross_profit_pct
              = ProfitPct(AmountAfter(path, Len(path.execution_steps)))
        /\ path.net_profit_pct = path.gross_profit_pct - path.total_fees_pct

\* C7 witness: a three-hop path with pairs of different fee rates and a
\* gross gain.
C7_Witness ==
    \E path \in ReturnedPaths :
        /\ Len(path.pairs) = 3
        /\ path.total_fees_pct = 8000
        /\ path.gross_profit_pct > 0
        /\ path.net_profit_pct < path.gross_profit_pct

\* Some pair of the list joins the two tokens, in either orientation.
Joined(pairs, x, y) ==
    \E k \in 1..Len(pairs) :
        \/ (pairs[k].base = x /\ pairs[k].quote = y)
        \/ (pairs[k].base = y /\ pairs[k].quote = x)

\* Every hop of the cycle t1 -> t2 -> t3 -> t1 has a pair.
Reachable(pairs, perm) ==
    /\ Joined(pairs, perm[1], perm[2])
    /\ Joined(pairs, perm[2], perm[3])
    /\ Joined(pairs, perm[3], perm[1])

C8_CalculateCostFormulas ==
    (pc = "done" /\ args.op = "calculate"
     /\ args.amount > 0 /\ args.buy_price > 0 /\ args.sell_price > 0) =>
        /\ ret.buy_fee = DecMul(DecMul(args.amount, args.buy_price),
                                get_fees(args.buy_exchange).taker)
        /\ ret.sell_fee = DecMul(DecMul(args.amount, args.sell_price),
                                 get_fees(args.sell_exchange).taker)
        /\ args.include_withdrawal =>
              ret.withdrawal_fee
                 = DecMul(args.amount, get_fees(args.buy_exchange).withdrawal)
        /\ ~args.include_withdrawal => ret.withdrawal_fee = 0
        /\ ret.total_costs
              = ret.buy_fee + ret.sell_fee + ret.withdrawal_fee
                + ret.slippage_cost + DecDiv(ret.gas_cost_usd, args.buy_price)
        /\ ret.net_profit = ret.gross_profit - ret.total_costs
        /\ ret.is_profitable <=> ret.net_profit > 0

\* C8 witness: a profitable trade bought on a venue that charges a withdrawal
\* fee and sold on a DEX leg, at a buy price other than 1.
C8_Witness ==
    /\ pc = "done" /\ args.op = "calculate"
    /\ args.include_withdrawal /\ ret.withdrawal_fee > 0
    /\ ret.gas_cost_usd > 0 /\ args.buy_price # Dec(1)
    /\ ret.slippage_cost > 0
    /\ ret.is_profitable

\* The tolerance of the round trip: one percent of the target.
RoundTripTolerance(target_profit_usd) == target_profit_usd \div 100

\* C9 (as claimed): when the spread exceeds the total fee rate, calculate at
\* the amount calculate_minimum_amount returned, on the same venues at a buy
\* price of 1 and the sell price that realises the spread, gives a net_profit
\* within the tolerance of the target; otherwise the amount is -1.
C9_MinimumAmountRoundTrips ==
    (pc = "done" /\ args.op = "calculate_minimum_amount") =>
        IF args.spread_pct
              <= TotalFeeRate(calc, args.buy_exchange, args.sell_exchange)
        THEN ret.amount = -Dec(1)
        ELSE LET breakdown ==
                     calculate(calc, "ETH/USDC", args.buy_exchange,
                               args.sell_exchange, Dec(1),
                               Dec(1) + args.spread_pct \div 100,
                               ret.amount, TRUE, CEX, CEX)
             IN  Abs(breakdown.net_profit - args.target_profit_usd)
                    <= RoundTripTolerance(args.target_profit_usd)

\* ------------------------------------------------- claims: venue fee lookup

\* The venue is in neither registry of the price source.
UnlistedQuoteVenue(name) ==
    NormalizeVenue(name) \notin (DOMAIN CEX_CONFIGS \cup DOMAIN DEX_CONFIGS)

\* The venue is not in the calculator's fee table.
UnlistedFeeVenue(name) == NormalizeVenue(name) \notin DOMAIN EXCHANGE_FEES

\* The quote, had a venue of taker fee 0.10% given it.
AsBinance(quote) == [quote EXCEPT !.exchange = NameBinance]

\* C11: a venue in no fee table never makes evaluate or calculate fail; the
\* evaluator charges that leg a taker fee of 0.10%, the calculator a taker fee
\* of 0.10% and a withdrawal fee of 0.05%, and the figures are those of a
\* listed venue with these rates.
C11_UnlistedVenueDefaultFees ==
    /\ (pc = "done" /\ args.op = "evaluate") =>
          LET listed == evaluate_opportunity(
                            scanner,
                            IF UnlistedQuoteVenue(args.buy_quote.exchange)
                            THEN AsBinance(args.buy_quote) ELSE args.buy_quote,
                            IF UnlistedQuoteVenue(args.sell_quote.exchange)
                            THEN AsBinance(args.sell_quote)
                            ELSE args.sell_quote)
          IN  /\ ret.kind \in {"none", "opportunity"}
              /\ IsNone(ret) <=> IsNone(listed)
              /\ ~IsNone(ret) =>
                    /\ UnlistedQuoteVenue(args.buy_quote.exchange)
                          => ret.buy_fee_pct = 1000
                    /\ UnlistedQuoteVenue(args.sell_quote.exchange)
                          => ret.sell_fee_pct = 1000
                    /\ ret.net_profit_per_unit = listed.net_profit_per_unit
                    /\ ret.net_spread_pct = listed.net_spread_pct
                    /\ ret.estimated_gas_usd = listed.estimated_gas_usd
    /\ (pc = "done" /\ args.op = "calculate") =>
          LET listed == calculate(
                            calc, "ETH/USDC",
                            IF UnlistedFeeVenue(args.buy_exchange)
                            THEN NameBinance ELSE args.buy_exchange,
                            IF UnlistedFeeVenue(args.sell_exchange)
                            THEN NameBinance ELSE args.sell_exchange,
                            args.buy_price, args.sell_price, args.amount,
                            args.include_withdrawal, args.buy_exchange_type,
                            args.sell_exchange_type)
          IN  /\ ret.kind = "breakdown"
              /\ UnlistedFeeVenue(args.buy_exchange) =>
                    /\ ret.buy_fee
                          = DecMul(DecMul(args.amount, args.buy_price), 10)
                    /\ args.include_withdrawal
                          => ret.withdrawal_fee = DecMul(args.amount, 5)
              /\ UnlistedFeeVenue(args.sell_exchange) =>
                    ret.sell_fee
                       = DecMul(DecMul(args.amount, args.sell_price), 10)
              /\ ret.total_costs = listed.total_costs
              /\ ret.net_profit = listed.net_profit
              /\ ret.is_profitable = listed.is_profitable

\* C11 witness: an opportunity bought on a venue no registry lists and sold on
\* a listed one of another fee.
C11_Witness ==
    /\ pc = "done" /\ args.op = "evaluate"
    /\ UnlistedQuoteVenue(args.buy_quote.exchange)
    /\ ~UnlistedQuoteVenue(args.sell_quote.exchange)
    /\ ~IsNone(ret)
    /\ ret.buy_fee_pct = 1000
    /\ ret.sell_fee_pct = 6000

\* --------------------------------------------------- claims: invalid input

\* The pair text is exactly BASE/QUOTE: two parts, neither empty.
WellFormedPair(pair) ==
    LET parts == SplitSlash(pair)
    IN  Len(parts) = 2 /\ Len(parts[1]) > 0 /\ Len(parts[2]) > 0

\* The amount text reads as a positive number.
PositiveAmount(text) ==
    LET amount == ParseDecimal(text) IN amount.ok /\ amount.value > 0

\* C12 (as claimed): a calc command with a malformed pair or an amount that is
\* not positive ends with a rejection - return code 1 and an error message -
\* and neither with a breakdown nor with an exception.
C12_InvalidInputRejected ==
    (pc = "done" /\ args.op = "run_calc"
     /\ (~WellFormedPair(args.pair) \/ ~PositiveAmount(args.amount))) =>
        /\ ret.kind = "exit"
        /\ ret.code = 1
        /\ ret.error # ""
        /\ IsNone(ret.breakdown)

\* ---------------------------------------------------------- claims: risk

\* The place of a risk level in LOW < MEDIUM < HIGH < EXTREME.
RiskRank(level) ==
    CASE level = LOW -> 0 [] level = MEDIUM -> 1 [] level = HIGH -> 2
      [] level = EXTREME -> 3

\* The level is not lower than the one returned.
NotLower(buy_quote, sell_quote, net_spread_pct) ==
    RiskRank(assess_risk(buy_quote, sell_quote, net_spread_pct))
        >= RiskRank(ret.level)

\* C13: the risk level is monotonic in each input: a staler leg, a larger
\* net_spread_pct, a DEX leg in place of a CEX leg, or a lower volume on a
\* leg, the other inputs unchanged, never gives a lower level.
C13_RiskMonotonic ==
    (pc = "done" /\ args.op = "assess_risk") =>
        LET b == args.buy_quote
            s == args.sell_quote
            n == args.net_spread_pct
        IN  /\ \A a \in RiskAges :
                  /\ a >= b.age => NotLower([b EXCEPT !.age = a], s, n)
                  /\ a >= s.age => NotLower(b, [s EXCEPT !.age = a], n)
            /\ \A m \in RiskSpreads : m >= n => NotLower(b, s, m)
            /\ b.exchange_type = CEX
                  => NotLower([b EXCEPT !.exchange_type = DEX], s, n)
            /\ s.exchange_type = CEX
                  => NotLower(b, [s EXCEPT !.exchange_type = DEX], n)
            /\ \A v \in RiskVolumes :
                  /\ v <= b.volume_24h
                        => NotLower([b EXCEPT !.volume_24h = v], s, n)
                  /\ v <= s.volume_24h
                        => NotLower(b, [s EXCEPT !.volume_24h = v], n)

\* C13 witness: a MEDIUM risk with a net spread between the two thresholds
\* that a larger spread raises to HIGH.
C13_Witness ==
    /\ pc = "done" /\ args.op = "assess_risk"
    /\ ret.level = MEDIUM
    /\ args.net_spread_pct = Dec(2) + 1
    /\ assess_risk(args.buy_quote, args.sell_quote, Dec(5) + 1) = HIGH

\* ------------------------------------------- claims: triangle enumeration

\* The lists that hold the items of a list in another order.
Rearrangements(list) ==
    {[k \in 1..Len(list) |-> list[p[k]]] : p \in Orderings(1..Len(list))}

\* C14: the triangles found do not depend on the order of the pair list:
\* every rearrangement of a list of up to MaxPairs pairs gives the same
\* set of sorted triples.
C14_TrianglesOrderIndependent ==
    (pc = "done" /\ args.op = "find_opportunities"
     /\ Len(args.pairs) <= MaxPairs) =>
        \A other \in Rearrangements(args.pairs) :
            find_triangles(other) = find_triangles(args.pairs)

\* C14 witness: a list of three pairs with a triangle, and a rearrangement
\* of it whose adjacency lists differ.
C14_Witness ==
    /\ pc = "done" /\ args.op = "find_opportunities"
    /\ Len(args.pairs) >= 3
    /\ find_triangles(args.pairs) # {}
    /\ \E other \in Rearrangements(args.pairs) :
          /\ build_graph(other) # build_graph(args.pairs)
          /\ find_triangles(other) = find_triangles(args.pairs)

\* ------------------------------------------------- claims: execution steps

\* Largest difference, in E4 of a percent, taken for rounding.
StepTolerance == 10

\* The amount after the first k execution steps read as written: a Sell
\* step multiplies by its price, a Buy step divides by it.
RECURSIVE StepsAmount(_, _)
StepsAmount(path, k) ==
    IF k = 0 THEN D(10, -1)
    ELSE LET before == StepsAmount(path, k - 1)
             step   == path.execution_steps[k]
         IN  IF step.kind = "Sell" THEN DMul(before, step.price)
             ELSE DDiv(before, step.price)

\* What the fees of the first k pairs leave of an amount.
RECURSIVE AfterFees(_, _, _)
AfterFees(amount, pairs, k) ==
    IF k = 0 THEN amount
    ELSE DMul(AfterFees(amount, pairs, k - 1), D(E4 - pairs[k].fee_rate, -4))

\* C15 (as claimed): the amount from walking the execution steps gives the
\* path's gross_profit_pct within the rounding tolerance.
C15_StepsGiveValuation ==
    \A path \in ReturnedPaths :
        Abs(ProfitPct(StepsAmount(path, Len(path.execution_steps)))
            - path.gross_profit_pct) <= StepTolerance

\* C15 (amended): the amount from walking the execution steps, less the fee
\* of each pair used, gives the path's gross_profit_pct within the rounding
\* tolerance.
C15_StepsLessFeesGiveValuation ==
    \A path \in ReturnedPaths :
        Abs(ProfitPct(AfterFees(StepsAmount(path, Len(path.execution_steps)),
                                path.pairs, Len(path.pairs)))
            - path.gross_profit_pct) <= StepTolerance

\* C15 witness: a path of a Sell and two Buy steps, or two Sell and a Buy,
\* whose steps alone give more than the valuation by more than the tolerance.
C15_Witness ==
    \E path \in ReturnedPaths :
        /\ Len(path.execution_steps) = 3
        /\ \E j \in 1..3, k \in 1..3 :
              /\ path.execution_steps[j].kind = "Sell"
              /\ path.execution_steps[k].kind = "Buy"
        /\ ProfitPct(StepsAmount(path, 3)) - path.gross_profit_pct
              > StepTolerance

\* ------------------------------------------------------- claims: gas cost

\* The taker fee and the gas units _evaluate_opportunity reads for a quote.
QuoteTakerFee(q) ==
    LET config == get_exchange_config(NormalizeVenue(q.exchange))
    IN  IF config.found THEN config.config.taker_fee ELSE DefaultTakerFee

QuoteGasUnits(q) ==
    LET config == get_exchange_config(NormalizeVenue(q.exchange))
    IN  IF config.found THEN config.config.gas_overhead ELSE DefaultGasUnits

\* The quotes that differ from q in the venue's gas overhead only.
OtherGasOverhead(q) ==
    {r \in GasQuotes : /\ r.exchange_type = q.exchange_type
                       /\ r.bid = q.bid /\ r.ask = q.ask
                       /\ r.volume_24h = q.volume_24h /\ r.age = q.age
                       /\ QuoteTakerFee(r) = QuoteTakerFee(q)
                       /\ QuoteGasUnits(r) # QuoteGasUnits(q)}

\* The two results carry the same per-unit figures.
SamePerUnit(a, b) ==
    /\ a.kind = b.kind
    /\ a.net_profit_per_unit = b.net_profit_per_unit
    /\ a.net_spread_pct = b.net_spread_pct
    /\ is_profitable(a) = is_profitable(b)

\* C16: the result of evaluate has the same net_profit_per_unit,
\* net_spread_pct and is_profitable at any other gas price, ETH price or
\* gas overhead of a venue, and its net_profit_per_unit is the gross profit
\* less the two fee amounts.
C16_GasNotSubtracted ==
    (pc = "done" /\ args.op = "evaluate" /\ ~IsNone(ret)) =>
        LET b == args.buy_quote
            s == args.sell_quote
        IN  /\ \A sc \in GasScannerConfigs :
                  SamePerUnit(evaluate_opportunity(sc, b, s), ret)
            /\ \A r \in OtherGasOverhead(b) :
                  SamePerUnit(evaluate_opportunity(scanner, r, s), ret)
            /\ \A r \in OtherGasOverhead(s) :
                  SamePerUnit(evaluate_opportunity(scanner, b, r), ret)
            /\ ret.net_profit_per_unit
                  = ret.gross_profit_per_unit
                    - (DecMul(b.ask, QuoteTakerFee(b))
                       + DecMul(s.bid, QuoteTakerFee(s)))

\* C16 witness: an evaluation with a DEX leg whose reported gas changes with
\* the gas price and with the venue's gas overhead while it stays profitable.
C16_Witness ==
    /\ pc = "done" /\ args.op = "evaluate" /\ ~IsNone(ret)
    /\ args.buy_quote.exchange_type = DEX
    /\ is_profitable(ret)
    /\ ret.estimated_gas_usd > ret.net_profit_per_unit
    /\ \E sc \in GasScannerConfigs :
          evaluate_opportunity(sc, args.buy_quote, args.sell_quote)
              .estimated_gas_usd # ret.estimated_gas_usd
    /\ \E r \in OtherGasOverhead(args.buy_quote) :
          evaluate_opportunity(scanner, r, args.sell_quote)
              .estimated_gas_usd # ret.estimated_gas_usd

\* --------------------------------------------------- claims: side effects

FetchedQuotes ==
    IF pc = "done" /\ args.op = "fetch_price" /\ ~IsNone(ret) THEN {ret}
    ELSE IF pc = "done" /\ args.op = "fetch_all_prices"
    THEN ListItems(ret.quotes)
    ELSE {}

\* The pair asked for is not listed and its inverse is.
AskedInverse ==
    /\ <<Upper(args.base), Upper(args.quote)>> \notin DOMAIN MOCK_PRICES
    /\ <<Upper(args.quote), Upper(args.base)>> \in DOMAIN MOCK_PRICES

\* The listed prices an inverted quote of the venue was derived from.
ListedFor(q) ==
    MOCK_PRICES[<<Upper(args.quote), Upper(args.base)>>]
               [NormalizeVenue(q.exchange)]

\* C18: every quote of the price source has ask >= bid and
\* mid = (bid + ask) / 2, and a quote of an inverted pair has bid = 1 / ask
\* and ask = 1 / bid of the listed pair.
C18_QuoteWellFormed ==
    \A q \in FetchedQuotes :
        /\ DLe(q.bid, q.ask)
        /\ DEq(DAdd(q.mid, q.mid), DAdd(q.bid, q.ask))
        /\ AskedInverse =>
              /\ DEq(q.bid, Inverse(ListedFor(q).ask))
              /\ DEq(q.ask, Inverse(ListedFor(q).bid))

\* C18 witness: the quotes of an inverted pair, with ask above bid on each.
C18_Witness ==
    /\ pc = "done" /\ args.op = "fetch_all_prices"
    /\ AskedInverse
    /\ Len(ret.quotes) >= 3
    /\ \A q \in FetchedQuotes : ~DEq(q.bid, q.ask)

\* ------------------------------------------- claims: normalized venue names

\* Names that differ from the given one in letter case, in an internal
\* space or in a trailing version tag only.
NameVariants(name) ==
    {name, Lower(name), Upper(name),
     <<name[1], " ">> \o Tail(name),
     name \o <<" ", "V", "3">>,
     name \o <<" ", "v", "3">>}

\* The quote under another name of its venue.
Renamed(quote, name) == [quote EXCEPT !.exchange = name]

\* C19 (as claimed): a venue named in another case, with an internal space
\* or with a trailing V3 is charged the same fees and the same gas, by
\* evaluate and by calculate, as under the name given.
C19_LookupByNormalizedName ==
    /\ (pc = "done" /\ args.op = "evaluate" /\ ~IsNone(ret)) =>
          /\ \A name \in NameVariants(args.buy_quote.exchange) :
                LET other == evaluate_opportunity(
                                 scanner, Renamed(args.buy_quote, name),
                                 args.sell_quote)
                IN  /\ other.buy_fee_pct = ret.buy_fee_pct
                    /\ other.estimated_gas_usd = ret.estimated_gas_usd
                    /\ other.net_profit_per_unit = ret.net_profit_per_unit
          /\ \A name \in NameVariants(args.sell_quote.exchange) :
                LET other == evaluate_opportunity(
                                 scanner, args.buy_quote,
                                 Renamed(args.sell_quote, name))
                IN  /\ other.sell_fee_pct = ret.sell_fee_pct
                    /\ other.estimated_gas_usd = ret.estimated_gas_usd
                    /\ other.net_profit_per_unit = ret.net_profit_per_unit
    /\ (pc = "done" /\ args.op = "calculate" /\ ret.kind = "breakdown") =>
          \A name \in NameVariants(args.buy_exchange) :
                LET other == calculate(calc, "ETH/USDC", name,
                                       args.sell_exchange,
                                       args.buy_price, args.sell_price,
                                       args.amount, args.include_withdrawal,
                                       args.buy_exchange_type,
                                       args.sell_exchange_type)
                IN  /\ other.buy_fee = ret.buy_fee
                    /\ other.withdrawal_fee = ret.withdrawal_fee
                    /\ other.gas_cost_usd = ret.gas_cost_usd
                    /\ other.net_profit = ret.net_profit

\* ------------------------------------------------ claims: profitable paths

AboutE4 == 1

\* The call that buys ETH/USDC on Binance at its ask of 2541.50 and sells on
\* Coinbase at its bid of 2543.80.
BinanceToCoinbase ==
    /\ pc = "done" /\ args.op = "evaluate"
    /\ args.buy_quote.exchange = NameBinance
    /\ args.buy_quote.ask = 25415000
    /\ args.sell_quote.exchange = NameCoinbase
    /\ args.sell_quote.bid = 25438000

PctTolerance == 500

\* The three pairs of PairUniverse whose prices agree: ETH/USDT at 6 is
\* ETH/BTC at 2 times BTC/USDT at 3, each at a fee of 0.1%.
ConsistentPairs ==
    {TradingPair("ETH", "USDT", D(6, 0), D(6, 0), 10, KeyBinance),
     TradingPair("ETH", "BTC", D(2, 0), D(2, 0), 10, KeyBinance),
     TradingPair("BTC", "USDT", D(3, 0), D(3, 0), 10, KeyBinance)}

\* find_opportunities was given exactly the consistent triangle.
ConsistentTriangle ==
    /\ pc = "done" /\ args.op = "find_opportunities"
    /\ Len(args.pairs) = 3
    /\ ListItems(args.pairs) = ConsistentPairs

\* C22: the path returned for a consistent triangle at a fee of 0.1% per pair
\* has a net_profit_pct of about -0.3%, three hops at 0.1%.
C22_ConsistentTriangleNetIsFees ==
    ConsistentTriangle =>
        \A k \in 1..Len(ret.paths) :
            Abs(ret.paths[k].net_profit_pct + 3000) <= PctTolerance

\* ------------------------------------------------- claim: 10 ETH, the fees
\* Half a unit of the second decimal place of an amount, in E4.
UsdTolerance == 50

\* calculate was asked about 10 units bought at 2541.50 at a taker fee of
\* 0.1% and sold at 2543.80 at a taker fee of 0.6%.
TenEthTrade ==
    /\ pc = "done" /\ args.op = "calculate"
    /\ args.amount = Dec(10)
    /\ args.buy_price = 25415000 /\ args.sell_price = 25438000
    /\ get_fees(args.buy_exchange).taker = 10
    /\ get_fees(args.sell_exchange).taker = 60

\* C23 as stated: the 10 ETH trade has a gross_profit of 23.00, a net_profit
\* strictly below it, and buy_fee + sell_fee of about 1.81.
C23_TenEthFeesAboutTwo ==
    TenEthTrade =>
        /\ ret.gross_profit = 230000
        /\ ret.net_profit < ret.gross_profit
        /\ Abs(ret.buy_fee + ret.sell_fee - 18100) <= UsdTolerance

\* C23, amended: the 10 ETH trade has a gross_profit of 23.00, a net_profit
\* strictly below it, and buy_fee + sell_fee of about 178.04: 0.1% of the
\* 25415.00 paid and 0.6% of the 25438.00 received.
C23_TenEthFeesExceedGross ==
    TenEthTrade =>
        /\ ret.gross_profit = 230000
        /\ ret.net_profit < ret.gross_profit
        /\ Abs(ret.buy_fee + ret.sell_fee - 1780400) <= UsdTolerance

C23_Witness ==
    /\ TenEthTrade
    /\ ret.buy_fee = 254150 /\ ret.sell_fee = 1526280
    /\ ret.net_profit = -2185855

\* ------------------------------------------------- claim: the risk table
\* The two legs of a call of _assess_risk.
RiskLegs == {args.buy_quote, args.sell_quote}

\* The score the risk table gives the arguments of a call: the legs counted
\* one by one, so equal legs count twice.
StatedRiskScore ==
    LET legs == <<args.buy_quote, args.sell_quote>>
        stale == Cardinality({k \in 1..2 : legs[k].age > 10})
        dex == Cardinality({k \in 1..2 : legs[k].exchange_type = DEX})
        thin == \E q \in RiskLegs : q.volume_24h < Dec(1000)
        low == \E q \in RiskLegs : q.volume_24h < Dec(10000)
    IN  2 * stale
        + (IF args.net_spread_pct > Dec(5) THEN 3
           ELSE IF args.net_spread_pct > Dec(2) THEN 1 ELSE 0)
        + dex
        + (IF thin THEN 2 ELSE IF low THEN 1 ELSE 0)

\* The level the risk table gives a score.
StatedRiskLevel(score) ==
    CASE score \in 0..1 -> LOW
      [] score \in 2..3 -> MEDIUM
      [] score \in 4..5 -> HIGH
      [] OTHER -> EXTREME

\* C24: the risk level is the bucket (LOW up to 1, MEDIUM 2..3, HIGH 4..5,
\* EXTREME above 5) of the score that adds 2 per leg staler than 10 seconds,
\* 3 for a net spread above 5.0 or else 1 above 2.0, 1 per DEX leg, and 2
\* for a least volume under 1000 or else 1 under 10000.
C24_RiskTable ==
    (pc = "done" /\ args.op = "assess_risk") =>
        ret.level = StatedRiskLevel(StatedRiskScore)

C24_Witness ==
    /\ pc = "done" /\ args.op = "assess_risk"
    /\ args.buy_quote.age > 10 /\ args.sell_quote.age <= 10
    /\ args.net_spread_pct > Dec(5)
    /\ args.buy_quote.exchange_type = DEX
    /\ args.sell_quote.exchange_type = CEX
    /\ args.buy_quote.volume_24h = Dec(5000)
    /\ args.sell_quote.volume_24h = Dec(50000)
    /\ StatedRiskScore = 7
    /\ ret.level = EXTREME

\* ------------------------------------------ claim: triangles, each once
\* The tokens a pair list names.
PairTokens(pairs) ==
    {pairs[k].base : k \in 1..Len(pairs)}
        \cup {pairs[k].quote : k \in 1..Len(pairs)}

\* The sorted triples of three different tokens that the list links pair
\* by pair.
LinkedTriples(pairs) ==
    {Sorted3(t[1], t[2], t[3]) :
        t \in {u \in PairTokens(pairs) \X PairTokens(pairs) \X PairTokens(pairs) :
                  /\ u[1] # u[2] /\ u[2] # u[3] /\ u[1] # u[3]
                  /\ Joined(pairs, u[1], u[2])
                  /\ Joined(pairs, u[2], u[3])
                  /\ Joined(pairs, u[3], u[1])}}

\* The triangle a returned path goes round.
PathTriangle(path) == Sorted3(path.tokens[1], path.tokens[2], path.tokens[3])

\* C25: every three different tokens linked pair by pair, in either
\* orientation, are one triangle of _find_triangles, and find_opportunities
\* evaluates that triangle once: its path is returned once when it meets
\* the threshold and not at all when it does not.
C25_EveryTriangleOnce ==
    (pc = "done" /\ args.op = "find_opportunities") =>
        \A t \in LinkedTriples(args.pairs) :
            LET path == evaluate_triangle(t, args.pairs, args.exchange)
                returned == {k \in 1..Len(ret.paths) :
                                PathTriangle(ret.paths[k]) = t}
            IN  /\ t \in find_triangles(args.pairs)
                /\ ~IsNone(path)
                /\ Cardinality(returned)
                     = IF PathMeetsMinProfit(finder, path) THEN 1 ELSE 0
                /\ \A k \in returned : ret.paths[k] = path

C25_Witness ==
    /\ pc = "done" /\ args.op = "find_opportunities"
    /\ Cardinality(LinkedTriples(args.pairs)) >= 2
    /\ Len(ret.paths) = Cardinality(LinkedTriples(args.pairs))

\* ------------------------------------------- claim: the best ordering
\* The six orderings of a triangle, each closed into a cycle.
CyclesOf(triangle) ==
    {CloseCycle(<<triangle[p[1]], triangle[p[2]], triangle[p[3]]>>) :
        p \in Orderings({1, 2, 3})}

\* The path is one of the cycles of the triangle, and no cycle of the
\* triangle that can be walked has a higher gross_profit_pct.
BestOfCycles(path, triangle, pairs) ==
    /\ path.tokens \in CyclesOf(triangle)
    /\ \A cycle \in CyclesOf(triangle) :
          LET result == calculate_path_profit(cycle, pairs)
          IN  IsNone(result)
                \/ result.gross_profit_pct <= path.gross_profit_pct

\* C26: the path returned for a triangle is one of its six orderings
\* [t0, t1, t2, t0], and its gross_profit_pct is at least that of every
\* other ordering that can be walked; no path is returned only when none
\* can.
C26_BestOrderingReturned ==
    /\ (pc = "done" /\ args.op = "find_opportunities") =>
          \A k \in 1..Len(ret.paths) :
              BestOfCycles(ret.paths[k], PathTriangle(ret.paths[k]),
                           args.pairs)
    /\ (pc = "done" /\ args.op = "analyze_single_triangle") =>
          IF IsNone(ret)
          THEN \A cycle \in CyclesOf(args.triangle) :
                  IsNone(calculate_path_profit(cycle, args.pairs))
          ELSE BestOfCycles(ret, args.triangle, args.pairs)

\* A triangle whose orderings differ in gross_profit_pct, the returned path
\* above another ordering.
C26_Witness ==
    /\ pc = "done" /\ args.op = "analyze_single_triangle"
    /\ ~IsNone(ret)
    /\ \E cycle \in CyclesOf(args.triangle) :
          LET result == calculate_path_profit(cycle, args.pairs)
          IN  /\ ~IsNone(result)
              /\ result.gross_profit_pct < ret.gross_profit_pct

\* --------------------------------------------- claim: the value of a hop
\* The pair listed last for two tokens, whichever is its base.
LastPairOf(pairs, x, y) ==
    LET listed == {k \in 1..Len(pairs) :
                      {pairs[k].base, pairs[k].quote} = {x, y}}
    IN  pairs[CHOOSE k \in listed : \A j \in listed : j <= k]

\* The amount after the first k hops of a path, from 1 unit: times the bid
\* when the hop leaves the base of its pair, divided by the ask when it
\* leaves the quote, and less the pair's fee after each hop.
RECURSIVE ValueAfter(_, _)
ValueAfter(path, k) ==
    IF k = 0 THEN D(1, 0)
    ELSE LET before == ValueAfter(path, k - 1)
             pair   == path.pairs[k]
             traded == IF pair.base = path.tokens[k]
                       THEN DMul(before, pair.bid)
                       ELSE DDiv(before, pair.ask)
         IN  DMul(traded, DSub(D(1, 0), D(pair.fee_rate, -4)))

\* C27: a path is valued from 1 unit, each hop multiplying by the bid of
\* its pair when it leaves the pair's base and dividing by the ask when it
\* does not, then multiplying by (1 - fee_rate); and a hop uses the same
\* pair in whichever direction it crosses it.
C27_HopValuation ==
    /\ \A path \in ReturnedPaths :
          /\ path.gross_profit_pct = ProfitPct(ValueAfter(path, 3))
          /\ \A k \in 1..3 :
                /\ path.pairs[k]
                     = LastPairOf(args.pairs, path.tokens[k],
                                  path.tokens[k + 1])
                /\ path.pairs[k]
                     = LastPairOf(args.pairs, path.tokens[k + 1],
                                  path.tokens[k])
    /\ (pc = "done" /\ args.op \in {"find_opportunities",
                                     "analyze_single_triangle"}) =>
          \A x \in PairTokens(args.pairs), y \in PairTokens(args.pairs) :
              FindPair(args.pairs, x, y) = FindPair(args.pairs, y, x)

\* A path with a hop from a base and a hop from a quote, over a list that
\* holds two of its tokens as a pair in both orientations.
C27_Witness ==
    \E path \in ReturnedPaths :
        /\ \E k \in 1..3 : path.pairs[k].base = path.tokens[k]
        /\ \E k \in 1..3 : path.pairs[k].base # path.tokens[k]
        /\ \E k \in 1..3 : path.pairs[k].bid # path.pairs[k].ask
        /\ \E i \in 1..Len(args.pairs), j \in 1..Len(args.pairs) :
              /\ args.pairs[i].base = args.pairs[j].quote
              /\ args.pairs[i].quote = args.pairs[j].base
              /\ args.pairs[i].base # args.pairs[i].quote

\* ------------------------------------------- claim: the breakeven spread
\* The most by which the two rounded percentages of a breakdown can stand
\* the other way round than the exact quotients, in units of E4.
PctRounding == 1

\* breakeven_spread_pct as calculate forms it: the rounded percentage of
\* the two fees in the buy cost, plus the slippage percentage.
BreakevenAsFormed ==
    ret.breakeven_spread_pct
        = Pct(ret.buy_fee + ret.sell_fee,
              DecMul(args.amount, args.buy_price))
          + estimate_slippage(calc, args.amount, args.buy_price,
                              DefaultLiquidityUsd).total_slippage_pct

CallLegs ==
    IF pc = "done" /\ args.op = "evaluate"
    THEN {<<args.buy_quote.exchange, args.buy_quote.exchange_type>>,
          <<args.sell_quote.exchange, args.sell_quote.exchange_type>>}
    ELSE IF pc = "done" /\ args.op = "calculate"
    THEN {<<args.buy_exchange, args.buy_exchange_type>>,
          <<args.sell_exchange, args.sell_exchange_type>>}
    ELSE {}

\* A leg on a DEX: an on-chain leg whose venue the registry does not list
\* as a CEX.
DexLeg(name, exchange_type) ==
    LET config == get_exchange_config(NormalizeVenue(name))
    IN  /\ exchange_type = DEX
        /\ config.found => config.config.exchange_type = DEX

\* C29: for every venue name, listed, unlisted or written in another case,
\* with a space or with a trailing V3, evaluate and calculate use the same
\* taker fee, and on a DEX leg the same gas units.
C29_SameCostParameters ==
    \A leg \in CallLegs :
        \A name \in NameVariants(leg[1]) :
            /\ get_fees(name).taker = QuoteTakerFee([exchange |-> name])
            /\ DexLeg(name, leg[2]) =>
                  SwapGasUnits(name) = QuoteGasUnits([exchange |-> name])

\* ------------------------------------- claim: best gross is best net
\* Two lists of pairs hold the same pairs, each as often.
SamePairs(a, b) ==
    \A q \in ListItems(a) \cup ListItems(b) :
        Cardinality({k \in 1..Len(a) : a[k] = q})
            = Cardinality({k \in 1..Len(b) : b[k] = q})

\* A float below 3 as a percentage in E4, rounded to the nearest.
FxRoundE4(x) ==
    LET y == FxTimes(x, E4)
    IN  (y[1] \div (2 ^ 10)) + (IF y[1] % (2 ^ 10) >= 2 ^ 9 THEN 1 ELSE 0)

\* The orderings of the triangle of a returned path that can be walked,
\* each with its result.
WalkedOrderings(path) ==
    {result \in {calculate_path_profit(cycle, args.pairs) :
                    cycle \in CyclesOf(PathTriangle(path))} :
        ~IsNone(result)}

\* C30: the orderings of a triangle that can be walked use the same three
\* pairs and so have the same total_fees_pct, and none has a
\* net_profit_pct above that of the path returned, also over lists that
\* hold a token pair more than once at different fees.
C30_BestGrossIsBestNet ==
    \A path \in ReturnedPaths :
        \A result \in WalkedOrderings(path) :
            /\ SamePairs(result.used_pairs, path.pairs)
            /\ FloatFeeTotal(result.used_pairs, 1, FxZero)
                  = FloatFeeTotal(path.pairs, 1, FxZero)
            /\ PathNetProfit(result.gross_profit_pct, result.total_fee_pct)
                  <= path.net_profit_pct

\* C30, amended: the orderings of a triangle that can be walked use the
\* same three pairs; their total_fees_pct, a float sum taken in the order
\* of the hops, is the same to four decimals though not always to the last
\* bit; and to that precision none has a net_profit_pct above that of the
\* path returned.
C30_BestGrossIsBestNetRounded ==
    \A path \in ReturnedPaths :
        \A result \in WalkedOrderings(path) :
            /\ SamePairs(result.used_pairs, path.pairs)
            /\ FxRoundE4(FloatFeeTotal(result.used_pairs, 1, FxZero))
                  = path.total_fees_pct
            /\ PathNetProfit(result.gross_profit_pct, result.total_fee_pct)
                  <= path.net_profit_pct

\* A list that holds BTC and USDT as a pair twice, at fees of 0.1% and
\* 0.6%, and a returned path one of whose orderings sums the three fees to
\* another float and has a lower gross profit.
C30_Witness ==
    /\ pc = "done" /\ args.op = "find_opportunities"
    /\ \E i \in 1..Len(args.pairs), j \in 1..Len(args.pairs) :
          /\ {args.pairs[i].base, args.pairs[i].quote}
                = {args.pairs[j].base, args.pairs[j].quote}
          /\ args.pairs[i].fee_rate # args.pairs[j].fee_rate
    /\ \E path \in ReturnedPaths :
          /\ path.total_fees_pct = 8000
          /\ \E result \in WalkedOrderings(path) :
                /\ FloatFeeTotal(result.used_pairs, 1, FxZero)
                     # FloatFeeTotal(path.pairs, 1, FxZero)
                /\ result.gross_profit_pct < path.gross_profit_pct

=============================================================================
